---------------------------- MODULE Spec2Model ----------------------------
(***************************************************************************)
(* Model of the tuffpad firmware's configuration store and command         *)
(* dispatcher: pkg/storage (Manager), pkg/protocol (Handler) and           *)
(* pkg/config (the fixed-layout record codec).                             *)
(*                                                                         *)
(* The flash filesystem (tinyfs/littlefs) is an external library.  It is   *)
(* modelled by the Fs* operators below under these assumptions:            *)
(*   - every filesystem call is atomic with respect to power loss;         *)
(*   - a file created with O_CREATE exists with length 0 until data is     *)
(*     synced; data written but not yet synced may be partly on the medium;*)
(*   - errors are littlefs.Error values, identified here by their message; *)
(*     os.IsNotExist / os.IsExist only recognise errors of package os.     *)
(***************************************************************************)
EXTENDS Integers, Sequences, FiniteSets, TLC

(***************************************************************************)
(* Bounds of the model                                                     *)
(***************************************************************************)
\* number of profile slots the host addresses (SlotOf(1), SlotOf(2), ...)
NumSlots == 2
\* number of distinct record bodies the host sends
NumSeeds == 2
\* the longest payload of the frames enumerated byte by byte
MaxWireLen == 2
\* the longest stream, in items (frames and pieces of garbage)
MaxStreamItems == 2
MaxFewSlots == 24
MaxNameLen == 17
\* the reports the application passes to Gamepad.tx
MaxReports == 4

(***************************************************************************)
(* Program constants                                                       *)
(***************************************************************************)
CurrentVersion == 1
ProfileSize == 286
DeviceSize == 12
SetProfileLen == 287
NumBindings == 32
BindingSize == 8
NameLen == 16
MaxNameBytes == 15
ProfileOverhead == 320
FixedOverhead == 100
BlockDevSize == 262144

SyncByte == 170
CmdGetDeviceConfig == 1
CmdSetDeviceConfig == 2
CmdGetProfile == 3
CmdSetProfile == 4
CmdDeleteProfile == 5
CmdListProfiles == 6
CmdGetStorageStats == 7
CmdPing == 8
CmdFactoryReset == 9
CmdGetVersion == 16
\* the Discover code of the protocol document; protocol.go declares no such
\* constant and Handle has no case for it
CmdDiscover == 127
\* the longest payload ReadFrame admits
MaxPayloadLen == 4096
\* CRC16-CCITT: initial value, polynomial, and the top bit of a uint16
CrcInit == 65535
CrcPoly == 4129
TopBit == 32768
Uint16Mod == 65536

StatusOK == 0
StatusError == 1
StatusInvalidCmd == 2
StatusInvalidData == 3
StatusNotFound == 4
StatusNoSpace == 5
StatusVersionMismatch == 6
StatusCRCError == 7

configDir == "/config"
profilesDir == "/config/profiles"
deviceName == <<"d", "e", "v", "i", "c", "e", ".", "b", "i", "n">>
profilesName == <<"p", "r", "o", "f", "i", "l", "e", "s">>
deviceFile == <<configDir, deviceName>>
tempSuffix == <<".", "t", "m", "p">>
profilePrefix == <<>>
profileSuffix == <<".", "b", "i", "n">>

\* errors of package storage and package config
ErrNil == "nil"
ErrProfileNotFound == "profile not found"
ErrFlashFull == "insufficient flash space"
ErrInvalidProfile == "invalid profile data"
ErrInvalidSize == "invalid config size"
ErrNotADirectory == "not a directory"
\* errors of the filesystem library (littlefs.Error) and of io
LfsErrIO == "littlefs: Error during device operation"
LfsErrCorrupt == "littlefs: Corrupted"
LfsErrNoEntry == "littlefs: No directory entry"
LfsErrExists == "littlefs: Entry already exists"
LfsErrNoSpace == "littlefs: No space left on device"
IoEOF == "EOF"
IoErrUnexpectedEOF == "unexpected EOF"
\* errors of package protocol
ErrInvalidFrame == "invalid frame"
ErrCRCMismatch == "CRC mismatch"
\* the error values package os itself produces (none of the calls modelled
\* here returns them: the filesystem is littlefs, not the host's)
OsErrNotExist == "file does not exist"
OsErrExist == "file already exists"

(***************************************************************************)
(* Strings (sequences of characters) and bytes                             *)
(***************************************************************************)
Digits == <<"0", "1", "2", "3", "4", "5", "6", "7", "8", "9">>

HasSuffix(s, suffix) ==
    /\ Len(s) >= Len(suffix)
    /\ SubSeq(s, Len(s) - Len(suffix) + 1, Len(s)) = suffix

HasPrefix(s, prefix) ==
    /\ Len(s) >= Len(prefix)
    /\ SubSeq(s, 1, Len(prefix)) = prefix

TrimSuffix(s, suffix) ==
    IF HasSuffix(s, suffix) THEN SubSeq(s, 1, Len(s) - Len(suffix)) ELSE s

TrimPrefix(s, prefix) ==
    IF HasPrefix(s, prefix) THEN SubSeq(s, Len(prefix) + 1, Len(s)) ELSE s

\* strconv.Itoa for a non-negative int
RECURSIVE Itoa(_)
Itoa(n) ==
    IF n < 10 THEN <<Digits[n + 1]>>
    ELSE Itoa(n \div 10) \o <<Digits[(n % 10) + 1]>>

DigitValue(c) == CHOOSE d \in 0..9 : Digits[d + 1] = c

IsDigit(c) == \E d \in 0..9 : Digits[d + 1] = c

RECURSIVE DecimalValue(_)
DecimalValue(s) ==
    IF Len(s) = 0 THEN 0
    ELSE 10 * DecimalValue(SubSeq(s, 1, Len(s) - 1)) + DigitValue(s[Len(s)])

\* strconv.ParseUint(s, 10, 8): [ok, value]
ParseUint8(s) ==
    IF Len(s) = 0 \/ \E i \in 1..Len(s) : ~IsDigit(s[i])
    THEN [ok |-> FALSE, value |-> 0]
    ELSE IF DecimalValue(s) > 255
    THEN [ok |-> FALSE, value |-> 255]
    ELSE [ok |-> TRUE, value |-> DecimalValue(s)]

\* binary.LittleEndian
PutUint16(v) == <<v % 256, (v \div 256) % 256>>
Uint16(b, off) == b[off + 1] + 256 * b[off + 2]
\* a uint32 is held as <<low 16 bits, high 16 bits>>: the checker's integers
\* are 32-bit signed
PutUint32(v) == PutUint16(v[1]) \o PutUint16(v[2])
Uint32(b, off) == <<Uint16(b, off), Uint16(b, off + 2)>>
\* uint32(n) of an int64 n >= 0: the low 32 bits
ToUint32(n) == <<n % 65536, (n \div 65536) % 65536>>

\* Go slice data[off:] / data[lo:hi] (0-based, hi exclusive) as a sequence
Slice(b, lo, hi) == SubSeq(b, lo + 1, hi)

Last(s) == s[Len(s)]

(***************************************************************************)
(* pkg/config: fixed-layout record codec                                   *)
(***************************************************************************)
ZeroBinding ==
    [InputType |-> 0, InputID |-> 0, OutputType |-> 0, OutputValue |-> 0,
     Modifiers |-> 0, Flags |-> 0, Reserved |-> 0]

\* the zero value of config.Profile (var profile config.Profile)
ZeroProfile ==
    [Version |-> 0, Flags |-> <<0, 0>>, RGBColor |-> <<0, 0>>, RGBPattern |-> 0,
     Reserved1 |-> 0, BindingCount |-> 0, Reserved2 |-> 0,
     Name |-> [i \in 1..NameLen |-> 0],
     Bindings |-> [i \in 1..NumBindings |-> ZeroBinding]]

\* the zero value of config.DeviceConfig
ZeroDeviceConfig ==
    [Version |-> 0, Flags |-> <<0, 0>>, ActiveProfile |-> 0, Brightness |-> 0,
     DebounceMs |-> 0, Reserved1 |-> 0, Reserved2 |-> 0]

BindingBytes(b) ==
    <<b.InputType, b.InputID, b.OutputType>> \o PutUint16(b.OutputValue)
        \o <<b.Modifiers, b.Flags, b.Reserved>>

RECURSIVE BindingsBytes(_, _)
BindingsBytes(bindings, i) ==
    IF i > Len(bindings) THEN <<>>
    ELSE BindingBytes(bindings[i]) \o BindingsBytes(bindings, i + 1)

\* a faulty MarshalBinary that writes 0 for the byte at offset 13
ProfileMarshalZeroReserved(p) ==
    PutUint16(p.Version) \o PutUint32(p.Flags) \o PutUint32(p.RGBColor)
        \o <<p.RGBPattern, p.Reserved1, p.BindingCount, 0>>
        \o p.Name \o BindingsBytes(p.Bindings, 1)

\* (p *Profile) MarshalBinary: always 286 bytes, err is always nil
ProfileMarshalBinary(p) ==
    PutUint16(p.Version) \o PutUint32(p.Flags) \o PutUint32(p.RGBColor)
        \o <<p.RGBPattern, p.Reserved1, p.BindingCount, p.Reserved2>>
        \o p.Name \o BindingsBytes(p.Bindings, 1)

\* a faulty UnmarshalBinary that restores only the first bindingCount
\* bindings and leaves the others zero
ProfileUnmarshalCounted(data) ==
    IF Len(data) < ProfileSize
    THEN [err |-> ErrInvalidSize, val |-> ZeroProfile]
    ELSE [err |-> ErrNil,
          val |-> [Version |-> Uint16(data, 0),
                   Flags |-> Uint32(data, 2),
                   RGBColor |-> Uint32(data, 6),
                   RGBPattern |-> data[11],
                   Reserved1 |-> data[12],
                   BindingCount |-> data[13],
                   Reserved2 |-> data[14],
                   Name |-> Slice(data, 14, 30),
                   Bindings |->
                       [i \in 1..NumBindings |->
                           LET offset == 30 + (i - 1) * BindingSize
                           IN IF i > data[13] THEN ZeroBinding
                              ELSE [InputType |-> data[offset + 1],
                                    InputID |-> data[offset + 2],
                                    OutputType |-> data[offset + 3],
                                    OutputValue |-> Uint16(data, offset + 3),
                                    Modifiers |-> data[offset + 6],
                                    Flags |-> data[offset + 7],
                                    Reserved |-> data[offset + 8]]]]]

\* (p *Profile) UnmarshalBinary: [err, val]
ProfileUnmarshalBinary(data) ==
    IF Len(data) < ProfileSize
    THEN [err |-> ErrInvalidSize, val |-> ZeroProfile]
    ELSE [err |-> ErrNil,
          val |-> [Version |-> Uint16(data, 0),
                   Flags |-> Uint32(data, 2),
                   RGBColor |-> Uint32(data, 6),
                   RGBPattern |-> data[11],
                   Reserved1 |-> data[12],
                   BindingCount |-> data[13],
                   Reserved2 |-> data[14],
                   Name |-> Slice(data, 14, 30),
                   Bindings |->
                       [i \in 1..NumBindings |->
                           LET offset == 30 + (i - 1) * BindingSize
                           IN [InputType |-> data[offset + 1],
                               InputID |-> data[offset + 2],
                               OutputType |-> data[offset + 3],
                               OutputValue |-> Uint16(data, offset + 3),
                               Modifiers |-> data[offset + 6],
                               Flags |-> data[offset + 7],
                               Reserved |-> data[offset + 8]]]]]

\* (d *DeviceConfig) MarshalBinary: always 12 bytes, err is always nil
DeviceMarshalBinary(d) ==
    PutUint16(d.Version) \o PutUint32(d.Flags)
        \o <<d.ActiveProfile, d.Brightness, d.DebounceMs, d.Reserved1>>
        \o PutUint16(d.Reserved2)

\* (d *DeviceConfig) UnmarshalBinary: [err, val]
DeviceUnmarshalBinary(data) ==
    IF Len(data) < DeviceSize
    THEN [err |-> ErrInvalidSize, val |-> ZeroDeviceConfig]
    ELSE [err |-> ErrNil,
          val |-> [Version |-> Uint16(data, 0),
                   Flags |-> Uint32(data, 2),
                   ActiveProfile |-> data[7],
                   Brightness |-> data[8],
                   DebounceMs |-> data[9],
                   Reserved1 |-> data[10],
                   Reserved2 |-> Uint16(data, 10)]]

\* (p *Profile) GetName: the bytes of Name before its first zero byte
GetName(p) ==
    IF \E i \in 1..NameLen : p.Name[i] = 0
    THEN SubSeq(p.Name, 1,
                (CHOOSE i \in 1..NameLen :
                    /\ p.Name[i] = 0
                    /\ \A j \in 1..(i - 1) : p.Name[j] # 0) - 1)
    ELSE p.Name

\* a faulty SetName that copies the name and writes no terminator
SetNameNoTerminator(p, name) ==
    LET b == IF Len(name) > MaxNameBytes THEN SubSeq(name, 1, MaxNameBytes)
             ELSE name
    IN [p EXCEPT !.Name =
           [i \in 1..NameLen |-> IF i <= Len(b) THEN b[i] ELSE p.Name[i]]]

\* (p *Profile) SetName: copy at most 15 bytes, then Name[len(b)] = 0
SetName(p, name) ==
    LET b == IF Len(name) > MaxNameBytes THEN SubSeq(name, 1, MaxNameBytes)
             ELSE name
    IN [p EXCEPT !.Name =
           [i \in 1..NameLen |->
               IF i <= Len(b) THEN b[i]
               ELSE IF i = Len(b) + 1 THEN 0
               ELSE p.Name[i]]]

(***************************************************************************)
(* The flash filesystem (littlefs on the block device).  A filesystem      *)
(* image is [formatted, dirs, files]: files maps <<directory, name>> to    *)
(* the bytes that are durable on the medium.                               *)
(***************************************************************************)
NoFiles == [k \in {} |-> <<>>]

BlankFlash == [formatted |-> FALSE, dirs |-> {}, files |-> NoFiles]

\* lfs.Format(): an empty filesystem
FormattedFlash == [formatted |-> TRUE, dirs |-> {}, files |-> NoFiles]

ParentExists(f, dir) ==
    IF dir = profilesDir THEN configDir \in f.dirs ELSE TRUE

FsExists(f, path) == path \in DOMAIN f.files

\* lfs.Remove(path) of a file: [fs, err]
FsRemove(f, path) ==
    IF FsExists(f, path)
    THEN [fs |-> [f EXCEPT !.files =
                      [k \in (DOMAIN f.files) \ {path} |-> f.files[k]]],
          err |-> ErrNil]
    ELSE [fs |-> f, err |-> LfsErrNoEntry]

\* the medium after path holds exactly data
FsPut(f, path, data) ==
    [f EXCEPT !.files =
        [k \in (DOMAIN f.files) \cup {path} |->
            IF k = path THEN data ELSE f.files[k]]]

\* lfs.Mkdir(dir): [fs, err]
FsMkdir(f, dir) ==
    IF dir \in f.dirs THEN [fs |-> f, err |-> LfsErrExists]
    ELSE IF ~ParentExists(f, dir) THEN [fs |-> f, err |-> LfsErrNoEntry]
    ELSE [fs |-> [f EXCEPT !.dirs = @ \cup {dir}], err |-> ErrNil]

\* lfs.OpenFile(path, O_WRONLY|O_CREATE|O_TRUNC): [fs, err]
FsCreate(f, path) ==
    IF path[1] \notin f.dirs THEN [fs |-> f, err |-> LfsErrNoEntry]
    ELSE [fs |-> FsPut(f, path, <<>>), err |-> ErrNil]

\* the medium after f.Write(data) and before Sync: part of data may be there
FsWriteUnsynced(f, path, data) == FsPut(f, path, SubSeq(data, 1, Len(data) \div 2))

\* lfs.Rename(from, to): [fs, err]; replaces an existing destination
FsRename(f, from, to) ==
    IF ~FsExists(f, from) THEN [fs |-> f, err |-> LfsErrNoEntry]
    ELSE [fs |-> FsRemove(FsPut(f, to, f.files[from]), from).fs, err |-> ErrNil]

\* lfs.Open(path) then f.Read(buf) with len(buf) = size:
\* [opened, err, n, buf]; opened is FALSE when Open itself failed
FsReadFile(f, path, size) ==
    IF ~FsExists(f, path)
    THEN [opened |-> FALSE, err |-> LfsErrNoEntry, n |-> 0, buf |-> <<>>]
    ELSE IF Len(f.files[path]) = 0
    THEN [opened |-> TRUE, err |-> IoEOF, n |-> 0, buf |-> <<>>]
    ELSE IF Len(f.files[path]) < size
    THEN [opened |-> TRUE, err |-> ErrNil, n |-> Len(f.files[path]),
          buf |-> f.files[path]]
    ELSE [opened |-> TRUE, err |-> ErrNil, n |-> size,
          buf |-> SubSeq(f.files[path], 1, size)]

\* the names of the entries of directory dir
DirEntryNames(f, dir) ==
    {k[2] : k \in {x \in DOMAIN f.files : x[1] = dir}}
        \cup (IF dir = configDir /\ profilesDir \in f.dirs
              THEN {profilesName} ELSE {})

\* a set as a sequence without repetition (the order Readdir yields)
\* (taken sixteen elements at a time, which keeps the evaluation shallow for
\* a directory of 256 entries)
RECURSIVE TakeSome(_, _)
TakeSome(S, n) ==
    IF S = {} \/ n = 0 THEN <<>>
    ELSE LET x == CHOOSE y \in S : TRUE IN <<x>> \o TakeSome(S \ {x}, n - 1)

RECURSIVE SetToSeq(_)
SetToSeq(S) ==
    IF S = {} THEN <<>>
    ELSE LET head == TakeSome(S, 16)
         IN head \o SetToSeq(S \ {head[i] : i \in 1..Len(head)})

\* os.IsNotExist / os.IsExist: only the errors of package os qualify
osIsNotExist(err) == err = OsErrNotExist
osIsExist(err) == err = OsErrExist

\* strings.Contains(err.Error(), "No directory entry")
ContainsNoDirectoryEntry(err) == err = LfsErrNoEntry
\* strings.Contains(err.Error(), "already exists")
ContainsAlreadyExists(err) == err \in {LfsErrExists, OsErrExist}

(***************************************************************************)
(* Injected filesystem faults: the call named by at fails with err.        *)
(***************************************************************************)
NoFault == [at |-> "none", err |-> ErrNil]
FaultPoints == {"mkdir", "open", "write", "sync", "close", "rename"}
Faults ==
    {NoFault} \cup [at : FaultPoints, err : {LfsErrIO, LfsErrNoSpace}]

\* the image an operation leaves: the last one of its trace of images
Final(f, trace) == IF Len(trace) = 0 THEN f ELSE Last(trace)

(***************************************************************************)
(* pkg/storage: Manager.  An operation that writes returns the trace of    *)
(* filesystem images it leaves after each filesystem call, so that a power *)
(* loss can stop it after any of them.                                     *)
(***************************************************************************)
\* a faulty profilePath that names the file by the low seven bits of the slot
profilePathSevenBits(slot) == <<profilesDir, Itoa(slot % 127) \o profileSuffix>>

\* (m *Manager) profilePath
profilePath(slot) == <<profilesDir, Itoa(slot) \o profileSuffix>>

\* (m *Manager) readDir: [err, entries]
readDir(f, dirPath) ==
    IF dirPath \notin f.dirs THEN [err |-> LfsErrNoEntry, entries |-> <<>>]
    ELSE [err |-> ErrNil, entries |-> SetToSeq(DirEntryNames(f, dirPath))]

\* isExist
isExist(err) ==
    IF err = ErrNil THEN FALSE
    ELSE IF osIsExist(err) THEN TRUE
    ELSE ContainsAlreadyExists(err)

\* m.fs.Remove of each path in turn, errors ignored: the trace of images
RECURSIVE RemoveEach(_, _)
RemoveEach(f, paths) ==
    IF Len(paths) = 0 THEN <<>>
    ELSE LET g == FsRemove(f, Head(paths)).fs
         IN <<g>> \o RemoveEach(g, Tail(paths))

IsTempName(name) == HasSuffix(name, tempSuffix)

\* the paths bootCleanup removes from one directory
TempPathsIn(entries, dir) ==
    LET temps == SelectSeq(entries, IsTempName)
    IN [i \in 1..Len(temps) |-> <<dir, temps[i]>>]

\* a faulty bootCleanup that cleans the config directory only
bootCleanupConfigOnly(f) ==
    [trace |-> RemoveEach(f, TempPathsIn(readDir(f, configDir).entries,
                                         configDir)),
     err |-> ErrNil]

\* (m *Manager) bootCleanup: [trace, err]
bootCleanup(f) ==
    LET cfgDir == readDir(f, configDir)
    IN IF cfgDir.err # ErrNil
       THEN [trace |-> <<>>,
             err |-> IF osIsNotExist(cfgDir.err) THEN ErrNil ELSE cfgDir.err]
       ELSE LET t1 == RemoveEach(f, TempPathsIn(cfgDir.entries, configDir))
                f1 == Final(f, t1)
                profDir == readDir(f1, profilesDir)
            IN IF profDir.err # ErrNil
               THEN [trace |-> t1,
                     err |-> IF osIsNotExist(profDir.err)
                             THEN ErrNil ELSE profDir.err]
               ELSE [trace |->
                         t1 \o RemoveEach(f1, TempPathsIn(profDir.entries,
                                                          profilesDir)),
                     err |-> ErrNil]

\* (m *Manager) LoadDevice: [err, val]
LoadDevice(f) ==
    LET r == FsReadFile(f, deviceFile, DeviceSize)
    IN IF r.err # ErrNil THEN [err |-> r.err, val |-> ZeroDeviceConfig]
       ELSE IF r.n # DeviceSize
       THEN [err |-> ErrInvalidProfile, val |-> ZeroDeviceConfig]
       ELSE DeviceUnmarshalBinary(r.buf)

\* LoadProfile without the check for littlefs's "No directory entry" text
LoadProfileOsOnly(f, slot) ==
    LET r == FsReadFile(f, profilePath(slot), ProfileSize)
    IN IF ~r.opened
       THEN (IF osIsNotExist(r.err)
             THEN [err |-> ErrProfileNotFound, val |-> ZeroProfile]
             ELSE [err |-> r.err, val |-> ZeroProfile])
       ELSE IF r.err # ErrNil THEN [err |-> r.err, val |-> ZeroProfile]
       ELSE IF r.n # ProfileSize
       THEN [err |-> ErrInvalidProfile, val |-> ZeroProfile]
       ELSE ProfileUnmarshalBinary(r.buf)

\* (m *Manager) LoadProfile: [err, val]
LoadProfile(f, slot) ==
    LET r == FsReadFile(f, profilePath(slot), ProfileSize)
    IN IF ~r.opened
       THEN (IF osIsNotExist(r.err)
             THEN [err |-> ErrProfileNotFound, val |-> ZeroProfile]
             ELSE IF ContainsNoDirectoryEntry(r.err)
             THEN [err |-> ErrProfileNotFound, val |-> ZeroProfile]
             ELSE [err |-> r.err, val |-> ZeroProfile])
       ELSE IF r.err # ErrNil THEN [err |-> r.err, val |-> ZeroProfile]
       ELSE IF r.n # ProfileSize
       THEN [err |-> ErrInvalidProfile, val |-> ZeroProfile]
       ELSE ProfileUnmarshalBinary(r.buf)

\* (m *Manager) ProfileExists
ProfileExists(f, slot) == FsExists(f, profilePath(slot))

\* the slot a directory entry names, or none: [ok, value]
EntrySlot(name) ==
    IF ~HasSuffix(name, profileSuffix) THEN [ok |-> FALSE, value |-> 0]
    ELSE IF HasSuffix(name, tempSuffix) THEN [ok |-> FALSE, value |-> 0]
    ELSE ParseUint8(TrimSuffix(TrimPrefix(name, profilePrefix), profileSuffix))

IsSlotEntry(name) == EntrySlot(name).ok

\* (m *Manager) ListProfiles: [err, slots]
ListProfiles(f) ==
    LET d == readDir(f, profilesDir)
    IN IF d.err # ErrNil
       THEN (IF osIsNotExist(d.err) THEN [err |-> ErrNil, slots |-> <<>>]
             ELSE [err |-> d.err, slots |-> <<>>])
       ELSE LET named == SelectSeq(d.entries, IsSlotEntry)
            IN [err |-> ErrNil,
                slots |-> [i \in 1..Len(named) |-> EntrySlot(named[i]).value]]

\* a faulty DeleteProfile that reports success and removes nothing
DeleteProfileKeepsFile(f, slot) == [trace |-> <<f>>, err |-> ErrNil]

\* (m *Manager) DeleteProfile: [trace, err]
DeleteProfile(f, slot) ==
    LET r == FsRemove(f, profilePath(slot))
    IN [trace |-> <<r.fs>>, err |-> r.err]

\* a faulty checkVersion that never asks for a wipe
checkVersionNever(f) == [needsWipe |-> FALSE, err |-> ErrNil]

\* (m *Manager) checkVersion: [needsWipe, err]
checkVersion(f) ==
    LET d == LoadDevice(f)
    IN IF d.err # ErrNil
       THEN (IF osIsNotExist(d.err) THEN [needsWipe |-> FALSE, err |-> ErrNil]
             ELSE [needsWipe |-> FALSE, err |-> d.err])
       ELSE [needsWipe |-> d.val.Version # CurrentVersion, err |-> ErrNil]

\* a wipeAll that removes no profile
wipePathsNone(l) == <<>>

\* wipeAll once ListProfiles has returned l: the profiles are removed;
\* the paths when ListProfiles failed are none
wipePaths(l) ==
    IF l.err = ErrNil
    THEN [i \in 1..Len(l.slots) |-> profilePath(l.slots[i])]
    ELSE <<>>

\* wipeAll's last call: m.fs.Remove(deviceFile), its error ignored
wipeDevice(f, t1) ==
    [trace |-> t1 \o <<FsRemove(Final(f, t1), deviceFile).fs>>, err |-> ErrNil]

\* a faulty wipeAll that removes the device config before the profiles
wipeAllDeviceFirst(f) ==
    LET d == FsRemove(f, deviceFile).fs
    IN [trace |-> <<d>> \o RemoveEach(d, wipePaths(ListProfiles(d))),
        err |-> ErrNil]

\* (m *Manager) wipeAll: [trace, err]
wipeAll(f) == wipeDevice(f, RemoveEach(f, wipePaths(ListProfiles(f))))

\* (m *Manager) ForceWipe
ForceWipe(f) == wipeAll(f)

\* (m *Manager) ensureDirs: [trace, err]
ensureDirs(f, fault) ==
    LET m1 == IF fault.at = "mkdir" THEN [fs |-> f, err |-> fault.err]
              ELSE FsMkdir(f, configDir)
        m2 == FsMkdir(m1.fs, profilesDir)
    IN IF m1.err # ErrNil /\ ~isExist(m1.err)
       THEN [trace |-> <<>>, err |-> m1.err]
       ELSE IF m2.err # ErrNil /\ ~isExist(m2.err)
       THEN [trace |-> <<m1.fs>>, err |-> m2.err]
       ELSE [trace |-> <<m1.fs, m2.fs>>, err |-> ErrNil]

\* a faulty atomicWrite that truncates the target and writes it in place
atomicWriteInPlace(f, filepath, data, fault) ==
    [trace |-> <<FsPut(f, filepath, <<>>),
                 FsWriteUnsynced(f, filepath, data),
                 FsPut(f, filepath, data)>>,
     err |-> ErrNil]

\* a faulty atomicWrite that returns the error of a failed Write, Sync or
\* Close without removing the temporary file
atomicWriteLeavesTemp(f, filepath, data, fault) ==
    LET tempPath == <<filepath[1], filepath[2] \o tempSuffix>>
        f1 == FsRemove(f, tempPath).fs
        opened == IF fault.at = "open" THEN [fs |-> f1, err |-> fault.err]
                  ELSE FsCreate(f1, tempPath)
        f2 == opened.fs
        f3 == FsWriteUnsynced(f2, tempPath, data)
        f4 == FsPut(f3, tempPath, data)
        f6 == FsRemove(f4, filepath).fs
        renamed == IF fault.at = "rename" THEN [fs |-> f6, err |-> fault.err]
                   ELSE FsRename(f6, tempPath, filepath)
    IN IF opened.err # ErrNil
       THEN [trace |-> <<f1>>, err |-> opened.err]
       ELSE IF fault.at \in {"write", "sync"}
       THEN [trace |-> <<f1, f2, f3>>, err |-> fault.err]
       ELSE IF fault.at = "close"
       THEN [trace |-> <<f1, f2, f3, f4>>, err |-> fault.err]
       ELSE IF renamed.err # ErrNil
       THEN [trace |-> <<f1, f2, f3, f4, f4, f6,
                         FsRemove(renamed.fs, tempPath).fs>>,
             err |-> renamed.err]
       ELSE [trace |-> <<f1, f2, f3, f4, f4, f6, renamed.fs>>, err |-> ErrNil]

\* (m *Manager) atomicWrite: [trace, err]
atomicWrite(f, filepath, data, fault) ==
    LET tempPath == <<filepath[1], filepath[2] \o tempSuffix>>
        f1 == FsRemove(f, tempPath).fs
        opened == IF fault.at = "open" THEN [fs |-> f1, err |-> fault.err]
                  ELSE FsCreate(f1, tempPath)
        f2 == opened.fs
        f3 == FsWriteUnsynced(f2, tempPath, data)
        f4 == FsPut(f3, tempPath, data)
        f6 == FsRemove(f4, filepath).fs
        renamed == IF fault.at = "rename" THEN [fs |-> f6, err |-> fault.err]
                   ELSE FsRename(f6, tempPath, filepath)
    IN IF opened.err # ErrNil
       THEN [trace |-> <<f1>>, err |-> opened.err]
       ELSE IF fault.at = "write"
       THEN [trace |-> <<f1, f2, f3, FsRemove(f3, tempPath).fs>>,
             err |-> fault.err]
       ELSE IF fault.at = "sync"
       THEN [trace |-> <<f1, f2, f3, FsRemove(f3, tempPath).fs>>,
             err |-> fault.err]
       ELSE IF fault.at = "close"
       THEN [trace |-> <<f1, f2, f3, f4, FsRemove(f4, tempPath).fs>>,
             err |-> fault.err]
       ELSE IF renamed.err # ErrNil
       THEN [trace |-> <<f1, f2, f3, f4, f4, f6,
                         FsRemove(renamed.fs, tempPath).fs>>,
             err |-> renamed.err]
       ELSE [trace |-> <<f1, f2, f3, f4, f4, f6, renamed.fs>>, err |-> ErrNil]

\* a faulty SaveDevice that stores the version the caller gave
SaveDeviceKeepsVersion(f, cfg, fault) ==
    atomicWrite(Final(f, ensureDirs(f, fault).trace), deviceFile,
                DeviceMarshalBinary(cfg), fault)

\* (m *Manager) SaveDevice: [trace, err]
SaveDevice(f, cfg, fault) ==
    LET dirs == ensureDirs(f, fault)
        versioned == [cfg EXCEPT !.Version = CurrentVersion]
        data == DeviceMarshalBinary(versioned)
        written == atomicWrite(Final(f, dirs.trace), deviceFile, data, fault)
    IN IF dirs.err # ErrNil THEN dirs
       ELSE [trace |-> dirs.trace \o written.trace, err |-> written.err]

\* (m *Manager) SaveProfile: [trace, err]
SaveProfile(f, slot, profile, fault) ==
    LET dirs == ensureDirs(f, fault)
        versioned == [profile EXCEPT !.Version = CurrentVersion]
        data == ProfileMarshalBinary(versioned)
        written == atomicWrite(Final(f, dirs.trace), profilePath(slot), data,
                               fault)
    IN IF dirs.err # ErrNil THEN dirs
       ELSE [trace |-> dirs.trace \o written.trace, err |-> written.err]

\* (m *Manager) GetStats: [err, val]
GetStats(f) ==
    LET l == ListProfiles(f)
        ok == l.err = ErrNil \/ ContainsNoDirectoryEntry(l.err)
        profiles == IF l.err = ErrNil THEN l.slots ELSE <<>>
        used == Len(profiles) * ProfileOverhead + FixedOverhead
    IN IF ~ok
       THEN [err |-> l.err,
             val |-> [TotalSpace |-> 0, UsedSpace |-> 0, FreeSpace |-> 0,
                      ProfileCount |-> 0]]
       ELSE [err |-> ErrNil,
             val |-> [TotalSpace |-> BlockDevSize, UsedSpace |-> used,
                      FreeSpace |-> BlockDevSize - used,
                      ProfileCount |-> Len(profiles)]]

\* storage.New: [trace, err]; the manager is nil exactly when err is not nil.
\* formatOK says whether lfs.Format and the mount after it succeed.
New(f, format, formatOK) ==
    LET mountErr == IF f.formatted THEN ErrNil ELSE LfsErrCorrupt
        t0 == IF mountErr = ErrNil THEN <<>> ELSE <<FormattedFlash>>
        f0 == Final(f, t0)
        cleaned == bootCleanup(f0)
        f1 == Final(f0, cleaned.trace)
        version == checkVersion(f1)
        needsWipe == IF version.err # ErrNil THEN FALSE ELSE version.needsWipe
        wiped == IF needsWipe THEN wipeAll(f1)
                 ELSE [trace |-> <<>>, err |-> ErrNil]
    IN IF mountErr # ErrNil /\ ~format THEN [trace |-> <<>>, err |-> mountErr]
       ELSE IF mountErr # ErrNil /\ ~formatOK
       THEN [trace |-> <<>>, err |-> LfsErrIO]
       ELSE IF wiped.err # ErrNil
       THEN [trace |-> t0 \o cleaned.trace \o wiped.trace, err |-> wiped.err]
       ELSE [trace |-> t0 \o cleaned.trace \o wiped.trace, err |-> ErrNil]

(***************************************************************************)
(* pkg/protocol: Handler.  A handler returns [resp, trace, panic]: the     *)
(* response, the trace of filesystem images it leaves, and whether it      *)
(* dereferenced a nil *storage.Manager (mgr = FALSE) and so never returned.*)
(***************************************************************************)
\* protocol.Frame, and the value that stands for no frame
Frame(cmd, payload) == [Cmd |-> cmd, Payload |-> payload]
NoRequest == [Cmd |-> -1, Payload |-> <<>>]
\* the value that stands for no protocol.Response
NoResponse == [Status |-> -1, Payload |-> <<>>]

Reply(status, payload, trace) ==
    [resp |-> [Status |-> status, Payload |-> payload], trace |-> trace,
     panic |-> FALSE]

\* a call into a nil *storage.Manager: m.fs is a nil pointer dereference
NilManagerPanic == [resp |-> NoResponse, trace |-> <<>>, panic |-> TRUE]

\* (h *Handler) handlePing
handlePing(payload) == Reply(StatusOK, payload, <<>>)

\* (h *Handler) handleGetDeviceConfig
handleGetDeviceConfig(f, mgr) ==
    LET cfg == LoadDevice(f)
    IN IF ~mgr THEN NilManagerPanic
       ELSE IF cfg.err # ErrNil
       THEN (IF cfg.err = ErrProfileNotFound
             THEN Reply(StatusNotFound, <<>>, <<>>)
             ELSE Reply(StatusError, <<>>, <<>>))
       ELSE Reply(StatusOK, DeviceMarshalBinary(cfg.val), <<>>)

\* the reply to a SaveDevice or SaveProfile that returned saved
SaveReply(saved) ==
    IF saved.err # ErrNil
    THEN (IF saved.err = ErrFlashFull
          THEN Reply(StatusNoSpace, <<>>, saved.trace)
          ELSE Reply(StatusError, <<>>, saved.trace))
    ELSE Reply(StatusOK, <<>>, saved.trace)

\* handleSetDeviceConfig once cfg.UnmarshalBinary has returned cfg
storeDeviceConfig(f, mgr, cfg, fault) ==
    IF cfg.err # ErrNil THEN Reply(StatusInvalidData, <<>>, <<>>)
    ELSE IF ~mgr THEN NilManagerPanic
    ELSE SaveReply(SaveDevice(f, cfg.val, fault))

\* (h *Handler) handleSetDeviceConfig
handleSetDeviceConfig(f, mgr, payload, fault) ==
    IF Len(payload) # DeviceSize THEN Reply(StatusInvalidData, <<>>, <<>>)
    ELSE storeDeviceConfig(f, mgr, DeviceUnmarshalBinary(payload), fault)

\* (h *Handler) handleGetProfile
handleGetProfile(f, mgr, payload) ==
    LET slot == payload[1]
        profile == LoadProfile(f, slot)
    IN IF Len(payload) # 1 THEN Reply(StatusInvalidData, <<>>, <<>>)
       ELSE IF ~mgr THEN NilManagerPanic
       ELSE IF profile.err # ErrNil
       THEN (IF profile.err = ErrProfileNotFound
             THEN Reply(StatusNotFound, <<>>, <<>>)
             ELSE Reply(StatusError, <<>>, <<>>))
       ELSE Reply(StatusOK, ProfileMarshalBinary(profile.val), <<>>)

\* a faulty handleSetProfile that stores a profile of any version
storeProfileUnchecked(f, mgr, slot, profile, fault) ==
    IF profile.err # ErrNil THEN Reply(StatusInvalidData, <<>>, <<>>)
    ELSE IF ~mgr THEN NilManagerPanic
    ELSE SaveReply(SaveProfile(f, slot, profile.val, fault))

\* handleSetProfile once profile.UnmarshalBinary has returned profile
storeProfile(f, mgr, slot, profile, fault) ==
    IF profile.err # ErrNil THEN Reply(StatusInvalidData, <<>>, <<>>)
    ELSE IF profile.val.Version # CurrentVersion
    THEN Reply(StatusVersionMismatch, <<>>, <<>>)
    ELSE IF ~mgr THEN NilManagerPanic
    ELSE SaveReply(SaveProfile(f, slot, profile.val, fault))

\* (h *Handler) handleSetProfile
handleSetProfile(f, mgr, payload, fault) ==
    IF Len(payload) # SetProfileLen
    THEN Reply(StatusInvalidData, <<>>, <<>>)
    ELSE storeProfile(f, mgr, payload[1],
                      ProfileUnmarshalBinary(Slice(payload, 1, Len(payload))),
                      fault)

\* (h *Handler) handleDeleteProfile
handleDeleteProfile(f, mgr, payload) ==
    LET slot == payload[1]
        deleted == DeleteProfile(f, slot)
    IN IF Len(payload) # 1 THEN Reply(StatusInvalidData, <<>>, <<>>)
       ELSE IF ~mgr THEN NilManagerPanic
       ELSE IF deleted.err # ErrNil
       THEN Reply(StatusError, <<>>, deleted.trace)
       ELSE Reply(StatusOK, <<>>, deleted.trace)

\* (h *Handler) handleListProfiles
handleListProfiles(f, mgr) ==
    LET l == ListProfiles(f)
    IN IF ~mgr THEN NilManagerPanic
       ELSE IF l.err # ErrNil THEN Reply(StatusError, <<>>, <<>>)
       ELSE Reply(StatusOK, <<Len(l.slots) % 256>> \o l.slots, <<>>)

\* the reply of handleGetStorageStats to the stats GetStats returned
statsReply(stats) ==
    IF stats.err # ErrNil THEN Reply(StatusError, <<>>, <<>>)
    ELSE Reply(StatusOK,
               PutUint32(ToUint32(stats.val.TotalSpace))
                   \o PutUint32(ToUint32(stats.val.UsedSpace))
                   \o PutUint32(ToUint32(stats.val.FreeSpace))
                   \o <<stats.val.ProfileCount % 256>>,
               <<>>)

\* (h *Handler) handleGetStorageStats
handleGetStorageStats(f, mgr) ==
    IF ~mgr THEN NilManagerPanic ELSE statsReply(GetStats(f))

\* the reply of handleFactoryReset to what ForceWipe returned
wipeReply(wiped) ==
    IF wiped.err # ErrNil THEN Reply(StatusError, <<>>, wiped.trace)
    ELSE Reply(StatusOK, <<>>, wiped.trace)

\* (h *Handler) handleFactoryReset
handleFactoryReset(f, mgr) ==
    IF ~mgr THEN NilManagerPanic ELSE wipeReply(ForceWipe(f))

\* (h *Handler) handleGetVersion
handleGetVersion == Reply(StatusOK, <<0, 1>> \o PutUint16(CurrentVersion), <<>>)

\* a dispatcher whose default case echoes the frame like Ping
HandleEchoDefault(f, mgr, frame, fault) ==
    CASE frame.Cmd = CmdGetDeviceConfig -> handleGetDeviceConfig(f, mgr)
      [] frame.Cmd = CmdSetDeviceConfig ->
            handleSetDeviceConfig(f, mgr, frame.Payload, fault)
      [] frame.Cmd = CmdGetProfile -> handleGetProfile(f, mgr, frame.Payload)
      [] frame.Cmd = CmdSetProfile ->
            handleSetProfile(f, mgr, frame.Payload, fault)
      [] frame.Cmd = CmdDeleteProfile ->
            handleDeleteProfile(f, mgr, frame.Payload)
      [] frame.Cmd = CmdListProfiles -> handleListProfiles(f, mgr)
      [] frame.Cmd = CmdGetStorageStats -> handleGetStorageStats(f, mgr)
      [] frame.Cmd = CmdFactoryReset -> handleFactoryReset(f, mgr)
      [] frame.Cmd = CmdGetVersion -> handleGetVersion
      [] OTHER -> handlePing(frame.Payload)

\* (h *Handler) Handle
Handle(f, mgr, frame, fault) ==
    CASE frame.Cmd = CmdPing -> handlePing(frame.Payload)
      [] frame.Cmd = CmdGetDeviceConfig -> handleGetDeviceConfig(f, mgr)
      [] frame.Cmd = CmdSetDeviceConfig ->
            handleSetDeviceConfig(f, mgr, frame.Payload, fault)
      [] frame.Cmd = CmdGetProfile -> handleGetProfile(f, mgr, frame.Payload)
      [] frame.Cmd = CmdSetProfile ->
            handleSetProfile(f, mgr, frame.Payload, fault)
      [] frame.Cmd = CmdDeleteProfile ->
            handleDeleteProfile(f, mgr, frame.Payload)
      [] frame.Cmd = CmdListProfiles -> handleListProfiles(f, mgr)
      [] frame.Cmd = CmdGetStorageStats -> handleGetStorageStats(f, mgr)
      [] frame.Cmd = CmdFactoryReset -> handleFactoryReset(f, mgr)
      [] frame.Cmd = CmdGetVersion -> handleGetVersion
      [] OTHER -> Reply(StatusInvalidCmd, <<>>, <<>>)

(***************************************************************************)
(* pkg/protocol: framing.  A reader is the sequence of bytes it will       *)
(* deliver; a writer receives the bytes of one Write call.                 *)
(***************************************************************************)
\* a ^ b on the low n bits
RECURSIVE XorBits(_, _, _)
XorBits(a, b, n) ==
    IF n = 0 THEN 0
    ELSE CHOOSE r \in {(((x % 2) + (y % 2)) % 2)
                           + 2 * XorBits(x \div 2, y \div 2, n - 1) :
                       x \in {a}, y \in {b}} : TRUE

Xor16(a, b) == XorBits(a, b, 16)

\* one turn of calcCRC's inner loop
crcShift(crc) ==
    IF crc >= TopBit
    THEN Xor16((crc * 2) % Uint16Mod, CrcPoly)
    ELSE (crc * 2) % Uint16Mod

\* n turns of calcCRC's inner loop.  (Here and below an intermediate value
\* is bound as the one element of a set, which makes the checker compute
\* it once, before it is used.)
RECURSIVE crcTurns(_, _)
crcTurns(crc, n) ==
    IF n = 0 THEN crc
    ELSE CHOOSE r \in {crcTurns(c, n - 1) : c \in {crcShift(crc)}} : TRUE

\* calcCRC's outer loop body for the byte b
crcByte(crc, b) ==
    CHOOSE r \in {crcTurns(c, 8) : c \in {Xor16(crc, b * 256)}} : TRUE

\* calcCRC's loop over data[lo..hi], left to right, starting from crc
RECURSIVE crcRange(_, _, _, _)
crcRange(crc, data, lo, hi) ==
    IF lo > hi THEN crc
    ELSE IF lo = hi THEN crcByte(crc, data[lo])
    ELSE CHOOSE r \in {crcRange(left, data, (lo + hi) \div 2 + 1, hi) :
                          left \in {crcRange(crc, data, lo, (lo + hi) \div 2)}} :
             TRUE

\* calcCRC
calcCRC(data) ==
    CHOOSE r \in {crcRange(CrcInit, d, 1, Len(d)) : d \in {data}} : TRUE

\* the frame layout shared by WriteFrame and WriteResponse: code is the
\* command or the status byte
EncodeFrame(code, payload) ==
    CHOOSE buf \in
        {<<SyncByte>> \o body \o PutUint16(crc) :
            body \in {<<code>> \o PutUint16(Len(payload) % Uint16Mod)
                          \o payload},
            crc \in {calcCRC(<<code>> \o PutUint16(Len(payload) % Uint16Mod)
                                 \o payload)}} : TRUE

\* a WriteFrame whose CRC covers the sync byte too
WriteFrameCrcOverSync(frame) ==
    <<SyncByte, frame.Cmd>> \o PutUint16(Len(frame.Payload) % Uint16Mod)
        \o frame.Payload
        \o PutUint16(calcCRC(<<SyncByte, frame.Cmd>>
                                 \o PutUint16(Len(frame.Payload) % Uint16Mod)
                                 \o frame.Payload))

\* WriteFrame: the bytes of its one Write call
WriteFrame(frame) == EncodeFrame(frame.Cmd, frame.Payload)

\* io.ReadFull of n bytes from a reader holding have bytes: its error
ReadFullErr(have, n) ==
    IF have >= n THEN ErrNil
    ELSE IF have = 0 THEN IoEOF
    ELSE IoErrUnexpectedEOF

\* what ReadFrame returns and what it leaves in the reader:
\* [err, frame, n (bytes consumed), rest]
ReadResult(err, frame, n, r) ==
    [err |-> err, frame |-> frame,
     n |-> IF n > Len(r) THEN Len(r) ELSE n,
     rest |-> SubSeq(r, n + 1, Len(r))]

\* a ReadFrame that reads the CRC bytes and does not compare them
ReadBodyNoCrc(r, cmd, length) ==
    IF length > MaxPayloadLen
    THEN ReadResult(ErrInvalidFrame, NoRequest, 4, r)
    ELSE IF length > 0 /\ ReadFullErr(Len(r) - 4, length) # ErrNil
    THEN ReadResult(ReadFullErr(Len(r) - 4, length), NoRequest, Len(r), r)
    ELSE IF ReadFullErr(Len(r) - 4 - length, 2) # ErrNil
    THEN ReadResult(ReadFullErr(Len(r) - 4 - length, 2), NoRequest, Len(r), r)
    ELSE ReadResult(ErrNil, Frame(cmd, SubSeq(r, 5, 4 + length)),
                    6 + length, r)

\* a ReadFrame that reads the payload and the CRC before it looks at the
\* declared length
ReadBodyLengthChecked(r, cmd, length) ==
    IF length > 0 /\ ReadFullErr(Len(r) - 4, length) # ErrNil
    THEN ReadResult(ReadFullErr(Len(r) - 4, length), NoRequest, Len(r), r)
    ELSE IF ReadFullErr(Len(r) - 4 - length, 2) # ErrNil
    THEN ReadResult(ReadFullErr(Len(r) - 4 - length, 2), NoRequest, Len(r), r)
    ELSE IF length > MaxPayloadLen
    THEN ReadResult(ErrInvalidFrame, NoRequest, 6 + length, r)
    ELSE IF Uint16(r, 4 + length) # calcCRC(SubSeq(r, 2, 4 + length))
    THEN ReadResult(ErrCRCMismatch, NoRequest, 6 + length, r)
    ELSE ReadResult(ErrNil, Frame(cmd, SubSeq(r, 5, 4 + length)),
                    6 + length, r)

\* ReadFrame once the header has been read and length decoded
ReadBody(r, cmd, length) ==
    IF length > MaxPayloadLen
    THEN ReadResult(ErrInvalidFrame, NoRequest, 4, r)
    ELSE IF length > 0 /\ ReadFullErr(Len(r) - 4, length) # ErrNil
    THEN ReadResult(ReadFullErr(Len(r) - 4, length), NoRequest, Len(r), r)
    ELSE IF ReadFullErr(Len(r) - 4 - length, 2) # ErrNil
    THEN ReadResult(ReadFullErr(Len(r) - 4 - length, 2), NoRequest, Len(r), r)
    ELSE IF Uint16(r, 4 + length) # calcCRC(SubSeq(r, 2, 4 + length))
    THEN ReadResult(ErrCRCMismatch, NoRequest, 6 + length, r)
    ELSE ReadResult(ErrNil, Frame(cmd, SubSeq(r, 5, 4 + length)),
                    6 + length, r)

\* a ReadFrame that reads the four header bytes at once and then looks at
\* the sync byte
ReadFrameWholeHeader(r) ==
    IF ReadFullErr(Len(r), 4) # ErrNil
    THEN ReadResult(ReadFullErr(Len(r), 4), NoRequest, Len(r), r)
    ELSE IF r[1] # SyncByte
    THEN ReadResult(ErrInvalidFrame, NoRequest, 4, r)
    ELSE ReadBody(r, r[2], Uint16(r, 2))

\* ReadFrame
ReadFrame(r) ==
    IF ReadFullErr(Len(r), 1) # ErrNil
    THEN ReadResult(ReadFullErr(Len(r), 1), NoRequest, 0, r)
    ELSE IF r[1] # SyncByte
    THEN ReadResult(ErrInvalidFrame, NoRequest, 1, r)
    ELSE IF ReadFullErr(Len(r) - 1, 3) # ErrNil
    THEN ReadResult(ReadFullErr(Len(r) - 1, 3), NoRequest, Len(r), r)
    ELSE ReadBody(r, r[2], Uint16(r, 2))

(***************************************************************************)
(* Inputs: the frames the host sends, and the flash images a device can    *)
(* hold when it is powered on.                                             *)
(***************************************************************************)
Seeds == 1..NumSeeds

\* the slot numbers the host addresses: 0, 127, 254, ...
SlotOf(i) == ((i - 1) * 127) % 256
Slots == {SlotOf(i) : i \in 1..NumSlots}

\* record bodies: every byte after the version depends on the seed
ProfilePayload(version, seed) ==
    PutUint16(version)
        \o [i \in 1..(ProfileSize - 2) |-> (seed * 97 + i * 31) % 256]

DevicePayload(version, seed) ==
    PutUint16(version)
        \o [i \in 1..(DeviceSize - 2) |-> (seed * 59 + i * 13) % 256]

\* versions other than CurrentVersion that a payload or an image carries
WrongVersions == {0, 257}
\* the version a SetDeviceConfig payload carries, by seed: 0, 1, 2, ...
PayloadVersion(seed) == seed - 1


PingFrames == {Frame(CmdPing, <<170, 187, 204>>)}
SetDeviceFrames ==
    {Frame(CmdSetDeviceConfig, DevicePayload(PayloadVersion(s), s)) : s \in Seeds}
SetProfileFrames ==
    {Frame(CmdSetProfile, <<slot>> \o ProfilePayload(CurrentVersion, s)) :
        slot \in Slots, s \in Seeds}
MismatchFrames ==
    {Frame(CmdSetProfile, <<slot>> \o ProfilePayload(v, 1)) :
        slot \in Slots, v \in WrongVersions}
GetProfileFrames == {Frame(CmdGetProfile, <<slot>>) : slot \in Slots}
DeleteProfileFrames == {Frame(CmdDeleteProfile, <<slot>>) : slot \in Slots}
ShortFrames ==
    {Frame(CmdSetDeviceConfig, <<1, 2, 3>>), Frame(CmdSetProfile, <<1, 2, 3>>),
     Frame(CmdGetProfile, <<>>), Frame(CmdDeleteProfile, <<>>)}
\* payloads one byte longer than the handler's length check admits
LongFrames ==
    {Frame(CmdSetDeviceConfig, DevicePayload(CurrentVersion, 1) \o <<0>>),
     Frame(CmdSetProfile,
           <<SlotOf(1)>> \o ProfilePayload(CurrentVersion, 1) \o <<0>>),
     Frame(CmdGetProfile, <<SlotOf(1), 0>>),
     Frame(CmdDeleteProfile, <<SlotOf(1), 0>>)}
\* the commands whose handlers take no payload, sent with one
SurplusFrames ==
    {Frame(cmd, <<1, 2, 3>>) :
        cmd \in {CmdGetDeviceConfig, CmdListProfiles, CmdGetStorageStats,
                 CmdFactoryReset, CmdGetVersion}}
DefinedCmds ==
    {CmdGetDeviceConfig, CmdSetDeviceConfig, CmdGetProfile, CmdSetProfile,
     CmdDeleteProfile, CmdListProfiles, CmdGetStorageStats, CmdPing,
     CmdFactoryReset, CmdGetVersion}
\* command bytes next to the defined codes and at both ends of the range
UnknownCmds == {0, 10, 15, 17, 126, 128, 255}
UnknownPayloads ==
    {<<>>, <<1, 2, 3>>, <<SlotOf(1)>>, DevicePayload(CurrentVersion, 1)}
UnknownFrames ==
    {Frame(cmd, payload) : cmd \in UnknownCmds, payload \in UnknownPayloads}
\* WriteFrame's bytes with the last CRC byte changed
BadCrc(frame) ==
    [WriteFrame(frame) EXCEPT ![6 + Len(frame.Payload)] = (@ + 1) % 256]
\* byte strings ReadFrame rejects: a wrong sync byte, a frame cut short, a
\* declared length of 4097, and frames whose CRC does not match
RejectedWires ==
    {<<85>>, <<SyncByte, CmdPing>>, <<SyncByte, CmdPing, 1, 16>>,
     BadCrc(Frame(CmdPing, <<1, 2, 3>>)), BadCrc(Frame(CmdFactoryReset, <<>>)),
     BadCrc(Frame(CmdDeleteProfile, <<SlotOf(1)>>))}
\* the bytes the line delivers: the rejected ones and one intact frame
LineWires == RejectedWires \cup {WriteFrame(Frame(CmdPing, <<1, 2, 3>>))}
DiscoverFrames == {Frame(CmdDiscover, <<>>), Frame(CmdDiscover, <<1, 2, 3>>)}

\* an image left by a firmware whose config format version is v
ImageOfVersion(v, withTemp) ==
    LET slot == SlotOf(1)
        base == FsPut(FsPut([formatted |-> TRUE,
                             dirs |-> {configDir, profilesDir},
                             files |-> NoFiles],
                            deviceFile, DevicePayload(v, 1)),
                      profilePath(slot), ProfilePayload(v, 1))
    IN IF withTemp
       THEN FsPut(FsPut(base, <<profilesDir, profilePath(SlotOf(2))[2] \o tempSuffix>>,
                        SubSeq(ProfilePayload(v, 1), 1, 100)),
                  <<configDir, deviceName \o tempSuffix>>, DevicePayload(v, 2))
       ELSE base

InitImages ==
    {BlankFlash, FormattedFlash}
        \cup {ImageOfVersion(v, t) : v \in WrongVersions, t \in BOOLEAN}

(***************************************************************************)
(* State                                                                   *)
(***************************************************************************)
VARIABLES
    flash,      \* the filesystem image on the flash
    pc,         \* where the firmware is: "off", "boot" (storage.New has
                \* returned), "read" (Serial.Handle waits in ReadFrame),
                \* "write" (Handler.Handle has returned a response),
                \* "skip" (ReadFrame has returned an error), "halted" (a
                \* panic); "host", "sent", "received" in SpecWire
    mgr,        \* TRUE when storage.New returned a manager (storageMgr # nil)
    req,        \* the frame being answered
    resp,       \* the response to it
    injected,   \* the filesystem fault injected into its dispatch
    before,     \* the image before the step that led here
    intr,       \* the write a power loss interrupted, until the next boot ends
    wire,       \* the bytes the host has put on the serial line
    rx,         \* what ReadFrame returned for them
    log         \* SpecStream: the ReadFrame and Write calls made so far

vars == <<flash, pc, mgr, req, resp, injected, before, intr, wire, rx, log>>

\* what the image holds at path
FileOrNone(f, path) ==
    IF FsExists(f, path) THEN <<"file", f.files[path]>> ELSE <<"absent">>

NoIntr == [active |-> FALSE, path |-> <<>>, step |-> 0, prior |-> <<"absent">>,
           data |-> <<>>]

\* ReadFrame has not been called
NoRx == [err |-> ErrNil, frame |-> NoRequest, n |-> 0, rest |-> <<>>]

Init ==
    /\ flash \in InitImages
    /\ pc = "off"
    /\ mgr = FALSE
    /\ req = NoRequest
    /\ resp = NoResponse
    /\ injected = NoFault
    /\ before = flash
    /\ intr = NoIntr
    /\ wire = <<>>
    /\ rx = NoRx
    /\ log = <<>>

(***************************************************************************)
(* Steps of atomicWrite, numbered by the filesystem call that has just     *)
(* returned when the power is lost.                                        *)
(***************************************************************************)
StepTempRemoved == 1
StepCreated == 2
StepWritten == 3
StepSynced == 4
StepClosed == 5
StepTargetRemoved == 6
StepRenamed == 7
\* the filesystem calls of ensureDirs, which precede atomicWrite
DirSteps == 2

\* the record a frame asks to store: [writes, path]
WriteTarget(frame) ==
    IF frame.Cmd = CmdSetDeviceConfig /\ Len(frame.Payload) = DeviceSize
    THEN [writes |-> TRUE, path |-> deviceFile]
    ELSE IF frame.Cmd = CmdSetProfile /\ Len(frame.Payload) = SetProfileLen
    THEN [writes |-> TRUE, path |-> profilePath(frame.Payload[1])]
    ELSE [writes |-> FALSE, path |-> <<>>]

(***************************************************************************)
(* Actions                                                                 *)
(***************************************************************************)
\* Serial.Handle's loop: ReadFrame has returned frame; Handler.Handle runs
\* to its end
Handled(frame, fault) ==
    /\ pc = "read"
    /\ \E h \in {Handle(flash, mgr, frame, fault)} :
          /\ flash' = Final(flash, h.trace)
          /\ pc' = IF h.panic THEN "halted" ELSE "write"
          /\ resp' = h.resp
    /\ req' = frame
    /\ injected' = fault
    /\ before' = flash
    /\ UNCHANGED <<mgr, intr>>

\* the same for a frame whose bytes the model does not spell out
Dispatch(frame, fault) ==
    /\ Handled(frame, fault)
    /\ UNCHANGED <<wire, rx, log>>

OnPing ==
    /\ pc = "read"
    /\ \E frame \in PingFrames : Dispatch(frame, NoFault)

OnGetDeviceConfig ==
    /\ pc = "read"
    /\ Dispatch(Frame(CmdGetDeviceConfig, <<>>), NoFault)

OnSetDeviceConfig ==
    /\ pc = "read"
    /\ \E frame \in SetDeviceFrames : Dispatch(frame, NoFault)

OnGetProfile ==
    /\ pc = "read"
    /\ \E frame \in GetProfileFrames : Dispatch(frame, NoFault)

OnSetProfile ==
    /\ pc = "read"
    /\ \E frame \in SetProfileFrames \cup MismatchFrames :
          Dispatch(frame, NoFault)

OnDeleteProfile ==
    /\ pc = "read"
    /\ \E frame \in DeleteProfileFrames : Dispatch(frame, NoFault)

OnListProfiles ==
    /\ pc = "read"
    /\ Dispatch(Frame(CmdListProfiles, <<>>), NoFault)

OnGetStorageStats ==
    /\ pc = "read"
    /\ Dispatch(Frame(CmdGetStorageStats, <<>>), NoFault)

OnFactoryReset ==
    /\ pc = "read"
    /\ Dispatch(Frame(CmdFactoryReset, <<>>), NoFault)

OnGetVersion ==
    /\ pc = "read"
    /\ Dispatch(Frame(CmdGetVersion, <<>>), NoFault)

OnShortPayload ==
    /\ pc = "read"
    /\ \E frame \in ShortFrames : Dispatch(frame, NoFault)

OnUnknownCommand ==
    /\ pc = "read"
    /\ \E frame \in UnknownFrames : Dispatch(frame, NoFault)

\* a loop that reports a CRC mismatch to the host
readErrorReplyCrc(err) ==
    IF err = ErrCRCMismatch
    THEN [Status |-> StatusCRCError, Payload |-> <<>>]
    ELSE NoResponse

\* a loop that answers every failed read with an Error response
readErrorReplyError(err) == [Status |-> StatusError, Payload |-> <<>>]

\* Serial.Handle when ReadFrame returns an error: continue, so that nothing
\* is handed to the handler and nothing is written
readErrorReply(err) == NoResponse

\* Serial.Handle's loop on bytes from the line: ReadFrame returns an error
\* and the loop continues, or it returns a frame and Handler.Handle runs
OnLineBytes ==
    /\ pc = "read"
    /\ \E bytes \in LineWires :
          \E r \in {ReadFrame(bytes)} :
              /\ wire' = bytes
              /\ rx' = r
              /\ IF r.err # ErrNil
                 THEN /\ resp' = readErrorReply(r.err)
                      /\ pc' = IF readErrorReply(r.err) = NoResponse
                               THEN "skip" ELSE "write"
                      /\ before' = flash
                      /\ UNCHANGED <<flash, mgr, req, injected, intr>>
                 ELSE Handled(r.frame, NoFault)
    /\ UNCHANGED log

\* Serial.Handle's loop: continue, back to ReadFrame
SkipFrame ==
    /\ pc = "skip"
    /\ pc' = "read"
    /\ wire' = <<>>
    /\ rx' = NoRx
    /\ UNCHANGED <<flash, mgr, req, resp, injected, before, intr, log>>

OnLongPayload ==
    /\ pc = "read"
    /\ \E frame \in LongFrames : Dispatch(frame, NoFault)

OnSurplusPayload ==
    /\ pc = "read"
    /\ \E frame \in SurplusFrames : Dispatch(frame, NoFault)

OnDiscover ==
    /\ pc = "read"
    /\ \E frame \in DiscoverFrames : Dispatch(frame, NoFault)

\* Serial.Handle's loop: protocol.WriteResponse, then back to ReadFrame
WriteResponse ==
    /\ pc = "write"
    /\ pc' = "read"
    /\ req' = NoRequest
    /\ resp' = NoResponse
    /\ injected' = NoFault
    /\ before' = flash
    /\ wire' = <<>>
    /\ rx' = NoRx
    /\ UNCHANGED <<flash, mgr, intr, log>>

\* the power is lost while Handler.Handle runs, after the k-th filesystem
\* call of the dispatch has returned; no response is sent
PowerLossDuring(frame, k) ==
    /\ pc = "read"
    /\ mgr
    /\ \E h \in {Handle(flash, mgr, frame, NoFault)} :
       \E target \in {WriteTarget(frame)} :
          /\ k \in 1..Len(h.trace)
          /\ flash' = h.trace[k]
          /\ intr' = IF target.writes
                     THEN [active |-> TRUE, path |-> target.path,
                           step |-> IF k > DirSteps THEN k - DirSteps ELSE 0,
                           prior |-> FileOrNone(flash, target.path),
                           data |-> Last(h.trace).files[target.path]]
                     ELSE NoIntr
    /\ pc' = "off"
    /\ req' = NoRequest
    /\ resp' = NoResponse
    /\ injected' = NoFault
    /\ before' = flash
    /\ UNCHANGED <<mgr, wire, rx, log>>

PowerLossInSetDeviceConfig ==
    /\ pc = "read"
    /\ \E frame \in SetDeviceFrames, k \in 1..(DirSteps + StepRenamed) :
          PowerLossDuring(frame, k)

PowerLossInSetProfile ==
    /\ pc = "read"
    /\ \E frame \in SetProfileFrames, k \in 1..(DirSteps + StepRenamed) :
          PowerLossDuring(frame, k)

PowerLossInFactoryReset ==
    /\ pc = "read"
    /\ \E k \in 1..(NumSlots + 1) :
          PowerLossDuring(Frame(CmdFactoryReset, <<>>), k)

\* the power is removed between filesystem calls: while the loop waits for
\* a frame, before a response is written, after a rejected frame, or after
\* a panic
\* (Manager.Close followed by a reopen leaves the same image)
PowerOff ==
    /\ pc \in {"boot", "read", "write", "skip", "halted"}
    /\ pc' = "off"
    /\ req' = NoRequest
    /\ resp' = NoResponse
    /\ injected' = NoFault
    /\ before' = flash
    /\ intr' = NoIntr
    /\ wire' = <<>>
    /\ rx' = NoRx
    /\ UNCHANGED <<flash, mgr, log>>

\* main: storage.New(flash, format) to its end, then NewHandler
Boot(format, formatOK) ==
    /\ pc = "off"
    /\ \E n \in {New(flash, format, formatOK)} :
          /\ flash' = Final(flash, n.trace)
          /\ mgr' = (n.err = ErrNil)
    /\ pc' = "boot"
    /\ before' = flash
    /\ UNCHANGED <<req, resp, injected, intr, wire, rx, log>>

PowerOn ==
    /\ pc = "off"
    /\ \E format \in BOOLEAN :
          \E formatOK \in (IF flash.formatted THEN {TRUE} ELSE BOOLEAN) :
              Boot(format, formatOK)

\* main: go mainSerial.Handle()
StartSerial ==
    /\ pc = "boot"
    /\ pc' = "read"
    /\ before' = flash
    /\ intr' = NoIntr
    /\ UNCHANGED <<flash, mgr, req, resp, injected, wire, rx, log>>

\* the power is lost inside storage.New, after its k-th filesystem call
PowerLossInNew ==
    /\ pc = "off"
    /\ \E format \in BOOLEAN :
          \E n \in {New(flash, format, TRUE)} :
              \E k \in 1..Len(n.trace) : flash' = n.trace[k]
    /\ before' = flash
    /\ UNCHANGED <<pc, mgr, req, resp, injected, intr, wire, rx, log>>

\* the device answering commands, with the power removed between commands
\* or lost at any filesystem call of a write, of a wipe or of storage.New
Next ==
    \/ OnPing
    \/ OnGetDeviceConfig
    \/ OnSetDeviceConfig
    \/ OnGetProfile
    \/ OnSetProfile
    \/ OnDeleteProfile
    \/ OnListProfiles
    \/ OnGetStorageStats
    \/ OnFactoryReset
    \/ OnGetVersion
    \/ OnShortPayload
    \/ OnUnknownCommand
    \/ OnLongPayload
    \/ OnSurplusPayload
    \/ OnDiscover
    \/ OnLineBytes
    \/ SkipFrame
    \/ WriteResponse
    \/ PowerLossInSetDeviceConfig
    \/ PowerLossInSetProfile
    \/ PowerLossInFactoryReset
    \/ PowerOff
    \/ PowerOn
    \/ StartSerial
    \/ PowerLossInNew

Spec == Init /\ [][Next]_vars

\* a filesystem call of SaveDevice fails, for lack of space or otherwise
OnSetDeviceConfigFault ==
    /\ pc = "read"
    /\ mgr
    /\ \E frame \in SetDeviceFrames, fault \in Faults \ {NoFault} :
          Dispatch(frame, fault)

\* a filesystem call of SaveProfile fails, for lack of space or otherwise
OnSetProfileFault ==
    /\ pc = "read"
    /\ mgr
    /\ \E frame \in SetProfileFrames, fault \in Faults \ {NoFault} :
          Dispatch(frame, fault)

\* the device on a flash whose filesystem calls can fail
NextFaults ==
    \/ Next
    \/ OnSetDeviceConfigFault
    \/ OnSetProfileFault

SpecFaults == Init /\ [][NextFaults]_vars

(***************************************************************************)
(* The frame codec on its own: the host encodes a frame with WriteFrame,   *)
(* the device decodes the bytes with ReadFrame.                            *)
(***************************************************************************)
WireBytes == {0, SyncByte, 255}
WireCmds == {0, CmdPing, CmdGetVersion, CmdDiscover, SyncByte, 255}

\* every payload over WireBytes of a length up to n
RECURSIVE PayloadsUpTo(_)
PayloadsUpTo(n) ==
    IF n = 0 THEN {<<>>}
    ELSE PayloadsUpTo(n - 1)
             \cup {Append(p, b) : p \in PayloadsUpTo(n - 1), b \in WireBytes}

\* a payload of n bytes that are not all alike
PatternPayload(n) == [i \in 1..n |-> (i * 7) % 256]

\* a Ping whose three payload bytes are a one-byte payload followed by the
\* CRC of the Ping frame that carries that one byte alone
EmbeddingFrame ==
    Frame(CmdPing, <<1>> \o PutUint16(calcCRC(<<CmdPing, 1, 0, 1>>)))

\* frames with every short payload, with a SetProfile payload (a length
\* that needs both length bytes), and with payloads of 4095, 4096 and 4097
\* bytes
WireFrames ==
    {Frame(cmd, payload) : cmd \in WireCmds, payload \in PayloadsUpTo(MaxWireLen)}
        \cup {Frame(CmdSetProfile,
                    <<SlotOf(1)>> \o ProfilePayload(CurrentVersion, 1))}
        \cup {Frame(CmdPing, PatternPayload(n)) :
                  n \in {MaxPayloadLen - 1, MaxPayloadLen, MaxPayloadLen + 1}}
        \cup {EmbeddingFrame}

\* b with its bit k inverted
FlipBit(b, k) ==
    IF (b \div (2 ^ k)) % 2 = 1 THEN b - 2 ^ k ELSE b + 2 ^ k

\* the bytes that follow a frame on the line
Tails == {<<>>, <<SyncByte, CmdPing>>}

InitWire ==
    /\ flash = BlankFlash
    /\ pc = "host"
    /\ mgr = FALSE
    /\ req \in WireFrames
    /\ resp = NoResponse
    /\ injected = NoFault
    /\ before = flash
    /\ intr = NoIntr
    /\ wire = <<>>
    /\ rx = NoRx
    /\ log = <<>>

\* the host calls WriteFrame(w, req)
HostWriteFrame ==
    /\ pc = "host"
    /\ pc' = "sent"
    /\ wire' = WriteFrame(req)
    /\ UNCHANGED <<flash, mgr, req, resp, injected, before, intr, rx, log>>

\* the device calls ReadFrame on a reader that holds the frame's bytes and
\* whatever follows them
DeviceReadFrame ==
    /\ pc = "sent"
    /\ pc' = "received"
    /\ \E tail \in Tails : rx' = ReadFrame(wire \o tail)
    /\ UNCHANGED <<flash, mgr, req, resp, injected, before, intr, wire, log>>

\* the line inverts one bit of the frame's command byte, length field,
\* payload or CRC (short frames only, every byte and every bit of them)
LineFlipsBit ==
    /\ pc = "sent"
    /\ Len(req.Payload) <= MaxWireLen + 1
    /\ \E i \in 2..Len(wire), k \in 0..7 :
          wire' = [wire EXCEPT ![i] = FlipBit(@, k)]
    /\ pc' = "flipped"
    /\ UNCHANGED <<flash, mgr, req, resp, injected, before, intr, rx, log>>

\* the device calls ReadFrame on the damaged bytes and what follows them
DeviceReadFlipped ==
    /\ pc = "flipped"
    /\ pc' = "misread"
    /\ \E tail \in Tails : rx' = ReadFrame(wire \o tail)
    /\ UNCHANGED <<flash, mgr, req, resp, injected, before, intr, wire, log>>

NextWire ==
    \/ HostWriteFrame
    \/ DeviceReadFrame
    \/ LineFlipsBit
    \/ DeviceReadFlipped

SpecWire == InitWire /\ [][NextWire]_vars

(***************************************************************************)
(* Serial.Handle on a stream: the reader holds wire, the bytes the host    *)
(* has sent and the loop has not yet read; log records every ReadFrame     *)
(* call and every Write call the loop makes.                               *)
(***************************************************************************)
\* a WriteResponse that writes the frame without its CRC, then the CRC
WriteResponseInTwoCalls(r) ==
    <<<<SyncByte, r.Status>> \o PutUint16(Len(r.Payload) % Uint16Mod)
          \o r.Payload,
      PutUint16(calcCRC(<<r.Status>> \o PutUint16(Len(r.Payload) % Uint16Mod)
                            \o r.Payload))>>

\* protocol.WriteResponse: the buffers of its calls of w.Write, in order
WriteResponseCalls(r) == <<EncodeFrame(r.Status, r.Payload)>>

\* the error of a w.Write that fails
ErrWrite == "write error"

\* what the host sends between frames, or instead of them: bytes that are
\* not the sync byte, a stray sync byte, a header announcing 4097 bytes,
\* and a frame with a wrong CRC
QuietGarbage == {<<85>>, <<0, 255>>}
StraySync == <<SyncByte>>
GarbageItems ==
    QuietGarbage
        \cup {StraySync, <<SyncByte, CmdPing, 1, 16>>,
              BadCrc(Frame(CmdDeleteProfile, <<SlotOf(1)>>))}

\* the frames the host sends on the stream
StreamFrames ==
    {Frame(CmdPing, <<1, 2, 3>>), Frame(CmdGetProfile, <<SlotOf(1)>>),
     Frame(CmdDeleteProfile, <<SlotOf(1)>>), Frame(CmdListProfiles, <<>>),
     Frame(255, <<>>)}

StreamItems == GarbageItems \cup {WriteFrame(f) : f \in StreamFrames}

\* every sequence of at most n elements of S
RECURSIVE ListsUpTo(_, _)
ListsUpTo(S, n) ==
    IF n = 0 THEN {<<>>}
    ELSE ListsUpTo(S, n - 1)
             \cup {Append(l, x) : l \in ListsUpTo(S, n - 1), x \in S}

\* the items of a list one after the other
RECURSIVE Concat(_)
Concat(l) == IF l = <<>> THEN <<>> ELSE Head(l) \o Concat(Tail(l))

\* the frames of a list as WriteFrame puts them on the line
RECURSIVE EncodeAll(_)
EncodeAll(fs) ==
    IF fs = <<>> THEN <<>> ELSE WriteFrame(Head(fs)) \o EncodeAll(Tail(fs))

Streams == {Concat(l) : l \in ListsUpTo(StreamItems, MaxStreamItems)}

InitStream ==
    /\ flash = ImageOfVersion(CurrentVersion, FALSE)
    /\ pc = "read"
    /\ mgr = TRUE
    /\ req = NoRequest
    /\ resp = NoResponse
    /\ injected = NoFault
    /\ before = flash
    /\ intr = NoIntr
    /\ wire \in Streams
    /\ rx = NoRx
    /\ log = <<>>

\* the log entry of a ReadFrame call: the bytes it took from the reader,
\* what it returned, and the response Handler.Handle made of the frame
ReadEntry(r, taken, response) ==
    [op |-> "read", bytes |-> taken, err |-> r.err, frame |-> r.frame,
     resp |-> response]

\* the log entries of the Write calls of one WriteResponse
WriteEntries(calls, err) ==
    [i \in 1..Len(calls) |-> [op |-> "write", bytes |-> calls[i], err |-> err]]

\* the loop's ReadFrame returns an error: continue.  (On an empty reader
\* ReadFrame fails without taking a byte and the loop is where it was.)
StreamReject ==
    /\ pc = "read"
    /\ wire # <<>>
    /\ \E r \in {ReadFrame(wire)} :
          /\ r.err # ErrNil
          /\ wire' = r.rest
          /\ rx' = r
          /\ resp' = readErrorReply(r.err)
          /\ pc' = IF readErrorReply(r.err) = NoResponse
                   THEN "read" ELSE "write"
          /\ log' = Append(log, ReadEntry(r, SubSeq(wire, 1, r.n),
                                          readErrorReply(r.err)))
    /\ UNCHANGED <<flash, mgr, req, injected, before, intr>>

\* the loop's ReadFrame returns a frame, and Handler.Handle its response
StreamDispatch ==
    /\ pc = "read"
    /\ wire # <<>>
    /\ \E r \in {ReadFrame(wire)} :
          /\ r.err = ErrNil
          /\ wire' = r.rest
          /\ rx' = r
          /\ Handled(r.frame, NoFault)
          /\ log' = Append(log, ReadEntry(r, SubSeq(wire, 1, r.n), resp'))

\* the loop's WriteResponse, whose Write succeeds or fails; either way the
\* loop goes back to ReadFrame
StreamWrite ==
    /\ pc = "write"
    /\ pc' = "read"
    /\ \E calls \in {WriteResponseCalls(resp)}, err \in {ErrNil, ErrWrite} :
          log' = log \o WriteEntries(calls, err)
    /\ req' = NoRequest
    /\ resp' = NoResponse
    /\ UNCHANGED <<flash, mgr, injected, before, intr, wire, rx>>

NextStream ==
    \/ StreamReject
    \/ StreamDispatch
    \/ StreamWrite

SpecStream == InitStream /\ [][NextStream]_vars

\* the loop runs whenever it can
SpecStreamLive == SpecStream /\ WF_vars(NextStream)

(***************************************************************************)
(* What a host would be told about an image, and what an image holds       *)
(***************************************************************************)
GetProfileAnswer(f, slot) ==
    Handle(f, TRUE, Frame(CmdGetProfile, <<slot>>), NoFault).resp

GetDeviceConfigAnswer(f) ==
    Handle(f, TRUE, Frame(CmdGetDeviceConfig, <<>>), NoFault).resp

ListProfilesAnswer(f) ==
    Handle(f, TRUE, Frame(CmdListProfiles, <<>>), NoFault).resp

\* the slots a ListProfiles answer names
ListedSlots(answer) ==
    IF answer.Status = StatusOK /\ Len(answer.Payload) >= 1
    THEN {answer.Payload[i] : i \in 2..Len(answer.Payload)}
    ELSE {}

TempFiles(f) == {p \in DOMAIN f.files : HasSuffix(p[2], tempSuffix)}

TempPathOf(path) == <<path[1], path[2] \o tempSuffix>>

OccupiedSlots(f) == {slot \in 0..255 : FsExists(f, profilePath(slot))}

RecordPaths == {deviceFile} \cup {profilePath(slot) : slot \in Slots}

RecordSize(path) == IF path = deviceFile THEN DeviceSize ELSE ProfileSize

\* a slot no GetProfile finds and no ListProfiles names
SlotAbsent(f, slot) ==
    /\ GetProfileAnswer(f, slot).Status = StatusNotFound
    /\ slot \notin ListedSlots(ListProfilesAnswer(f))

(***************************************************************************)
(* Properties                                                              *)
(***************************************************************************)

\* C1: when the power is lost in SaveProfile or SaveDevice after the
\* temporary file is written, synced and closed and before the rename has
\* completed, then after the restart the target holds exactly the value it
\* held before the operation (or is absent if it was absent), and no .tmp
\* file remains.
C1_InterruptedWriteKeepsPrior ==
    (/\ pc = "boot"
     /\ mgr
     /\ intr.active
     /\ intr.step \in {StepClosed, StepTargetRemoved})
        => /\ FileOrNone(flash, intr.path) = intr.prior
           /\ TempFiles(flash) = {}

\* C2: at every point of every atomicWrite, every point where the power can
\* be lost included, the target is absent or holds one complete record of
\* its fixed size, the previous one or the new one; LoadProfile and
\* LoadDevice never see a partly written target.
C2_TargetAbsentOrComplete ==
    /\ \A path \in RecordPaths :
          FsExists(flash, path) => Len(flash.files[path]) = RecordSize(path)
    /\ intr.active =>
          FileOrNone(flash, intr.path)
              \in {<<"absent">>, intr.prior, <<"file", intr.data>>}
    /\ (pc = "write" /\ WriteTarget(req).writes) =>
          \/ FileOrNone(flash, WriteTarget(req).path)
                = FileOrNone(before, WriteTarget(req).path)
          \/ /\ FsExists(flash, WriteTarget(req).path)
             /\ Len(flash.files[WriteTarget(req).path])
                    = RecordSize(WriteTarget(req).path)
             /\ Slice(flash.files[WriteTarget(req).path], 2,
                      RecordSize(WriteTarget(req).path))
                    = Slice(req.Payload,
                            Len(req.Payload) - RecordSize(WriteTarget(req).path) + 2,
                            Len(req.Payload))
    /\ LoadDevice(flash).err \in {ErrNil, LfsErrNoEntry}
    /\ LoadDevice(flash).err = ErrNil =>
          DeviceMarshalBinary(LoadDevice(flash).val) = flash.files[deviceFile]
    /\ \A slot \in Slots :
          /\ LoadProfile(flash, slot).err \in {ErrNil, ErrProfileNotFound}
          /\ LoadProfile(flash, slot).err = ErrNil =>
                ProfileMarshalBinary(LoadProfile(flash, slot).val)
                    = flash.files[profilePath(slot)]

\* the power was lost with half of the temporary file written, and the
\* target still holds the previous record
C2_PowerLostWhileWriting ==
    /\ pc = "off"
    /\ intr.active
    /\ intr.step = StepWritten
    /\ intr.prior[1] = "file"
    /\ FileOrNone(flash, intr.path) = intr.prior
    /\ intr.prior # <<"file", intr.data>>
    /\ FsExists(flash, TempPathOf(intr.path))
    /\ Len(flash.files[TempPathOf(intr.path)]) < Len(intr.data)

C4_BootVersionPolicy ==
    (pc = "boot" /\ mgr) =>
        IF LoadDevice(before).err = ErrNil
               /\ LoadDevice(before).val.Version # CurrentVersion
        THEN /\ ListProfiles(flash) = [err |-> ErrNil, slots |-> <<>>]
             /\ LoadDevice(flash).err # ErrNil
             /\ DOMAIN flash.files = {}
        ELSE \A p \in (DOMAIN before.files) \ TempFiles(before) :
                 FileOrNone(flash, p) = FileOrNone(before, p)

\* storage.New has returned on an image that held a device record of
\* another version and a profile
C4_WipedOnMismatch ==
    /\ pc = "boot"
    /\ mgr
    /\ LoadDevice(before).err = ErrNil
    /\ LoadDevice(before).val.Version # CurrentVersion
    /\ \E slot \in Slots : FsExists(before, profilePath(slot))

\* C5: for every slot and every 286-byte profile of CurrentVersion,
\* SetProfile answers OK and a GetProfile of that slot that follows answers
\* OK with a payload equal, byte for byte, to the profile; the last write
\* to a slot wins.
C5_SetThenGetRoundTrip ==
    (/\ pc = "write"
     /\ mgr
     /\ req.Cmd = CmdSetProfile
     /\ Len(req.Payload) = SetProfileLen
     /\ Uint16(req.Payload, 1) = CurrentVersion)
        => /\ resp = [Status |-> StatusOK, Payload |-> <<>>]
           /\ GetProfileAnswer(flash, req.Payload[1])
                  = [Status |-> StatusOK,
                     Payload |-> Slice(req.Payload, 1, SetProfileLen)]

\* a SetProfile has replaced a different profile held by the slot
C5_Overwritten ==
    /\ pc = "write"
    /\ mgr
    /\ req \in SetProfileFrames
    /\ resp.Status = StatusOK
    /\ FsExists(before, profilePath(req.Payload[1]))
    /\ before.files[profilePath(req.Payload[1])]
           # Slice(req.Payload, 1, SetProfileLen)
    /\ GetProfileAnswer(before, req.Payload[1]).Status = StatusOK

\* C6: SetDeviceConfig with any 12-byte payload answers OK, and a
\* GetDeviceConfig that follows answers OK with 12 bytes whose flags,
\* activeProfile, brightness, debounceMs and reserved fields equal the
\* payload's and whose version is CurrentVersion, whatever version the
\* payload carried.
C6_DeviceConfigRoundTrip ==
    (/\ pc = "write"
     /\ mgr
     /\ req.Cmd = CmdSetDeviceConfig
     /\ Len(req.Payload) = DeviceSize)
        => /\ resp = [Status |-> StatusOK, Payload |-> <<>>]
           /\ GetDeviceConfigAnswer(flash).Status = StatusOK
           /\ Len(GetDeviceConfigAnswer(flash).Payload) = DeviceSize
           /\ Slice(GetDeviceConfigAnswer(flash).Payload, 2, DeviceSize)
                  = Slice(req.Payload, 2, DeviceSize)
           /\ Uint16(GetDeviceConfigAnswer(flash).Payload, 0) = CurrentVersion

\* a SetDeviceConfig whose payload carried another version was answered
C6_OtherVersionStored ==
    /\ pc = "write"
    /\ mgr
    /\ req \in SetDeviceFrames
    /\ Uint16(req.Payload, 0) # CurrentVersion
    /\ resp.Status = StatusOK

\* C7: after any sequence of SetProfile and DeleteProfile operations, the
\* empty sequence included, on a freshly initialised store, ListProfiles
\* succeeds and returns exactly the occupied slots, each once; temporary
\* files contribute nothing.
C7_ListReturnsOccupiedSlots ==
    (pc \in {"boot", "read", "write"} /\ mgr) =>
        /\ ListProfilesAnswer(flash).Status = StatusOK
        /\ Len(ListProfilesAnswer(flash).Payload) >= 1
        /\ ListProfilesAnswer(flash).Payload[1]
               = Len(ListProfilesAnswer(flash).Payload) - 1
        /\ ListedSlots(ListProfilesAnswer(flash)) = OccupiedSlots(flash)
        /\ Cardinality(ListedSlots(ListProfilesAnswer(flash)))
               = Len(ListProfilesAnswer(flash).Payload) - 1

\* C8: once DeleteProfile of an occupied slot has answered OK, GetProfile
\* of the slot answers NotFound and ListProfiles does not name the slot,
\* and this stays so until a later SetProfile to that slot.
C8_DeletedStaysAbsent ==
    [][\A slot \in Slots :
          /\ (/\ pc' = "write"
              /\ req' = Frame(CmdDeleteProfile, <<slot>>)
              /\ resp'.Status = StatusOK
              /\ FsExists(flash, profilePath(slot)))
                 => SlotAbsent(flash', slot)
          /\ (/\ SlotAbsent(flash, slot)
              /\ ~(req'.Cmd = CmdSetProfile /\ req'.Payload[1] = slot)
              /\ ~(pc = "read" /\ pc' = "off" /\ intr'.active
                       /\ intr'.path = profilePath(slot)))
                 => SlotAbsent(flash', slot)]_vars

\* a DeleteProfile of an occupied slot has answered OK
C8_OccupiedSlotDeleted ==
    /\ pc = "write"
    /\ mgr
    /\ req \in DeleteProfileFrames
    /\ resp.Status = StatusOK
    /\ FsExists(before, profilePath(req.Payload[1]))
    /\ GetProfileAnswer(before, req.Payload[1]).Status = StatusOK
    /\ SlotAbsent(flash, req.Payload[1])

\* C9: DeleteProfile of a slot that holds no profile answers OK, not an
\* error, and leaves the storage unchanged.
C9_DeleteEmptySlotIsOK ==
    (/\ pc = "write"
     /\ mgr
     /\ req.Cmd = CmdDeleteProfile
     /\ Len(req.Payload) = 1
     /\ ~FsExists(before, profilePath(req.Payload[1])))
        => /\ resp.Status = StatusOK
           /\ flash = before

\* C10: SetProfile with a 287-byte payload whose profile version differs
\* from CurrentVersion answers VersionMismatch and leaves the slot, and
\* the whole store, exactly as it was.
C10_MismatchRejected ==
    (/\ pc = "write"
     /\ req.Cmd = CmdSetProfile
     /\ Len(req.Payload) = SetProfileLen
     /\ Uint16(req.Payload, 1) # CurrentVersion)
        => /\ resp = [Status |-> StatusVersionMismatch, Payload |-> <<>>]
           /\ flash = before
           /\ GetProfileAnswer(flash, req.Payload[1])
                  = GetProfileAnswer(before, req.Payload[1])

\* a SetProfile of another version was sent to a slot that holds a profile
C10_MismatchOnOccupiedSlot ==
    /\ pc = "write"
    /\ mgr
    /\ req \in MismatchFrames
    /\ Uint16(req.Payload, 1) % 256 = CurrentVersion
    /\ GetProfileAnswer(before, req.Payload[1]).Status = StatusOK
    /\ resp.Status = StatusVersionMismatch

\* C11: whenever no device-config record is stored, GetDeviceConfig answers
\* NotFound with an empty payload.
C11_NoDeviceConfigIsNotFound ==
    (/\ pc = "write"
     /\ mgr
     /\ req.Cmd = CmdGetDeviceConfig
     /\ ~FsExists(before, deviceFile))
        => resp = [Status |-> StatusNotFound, Payload |-> <<>>]

\* C11, as the code behaves: LoadDevice hands back the filesystem's own
\* error for the missing file, which the handler answers with Error.
C11_NoDeviceConfigIsError ==
    (/\ pc = "write"
     /\ mgr
     /\ req.Cmd = CmdGetDeviceConfig
     /\ ~FsExists(before, deviceFile))
        => /\ resp = [Status |-> StatusError, Payload |-> <<>>]
           /\ flash = before

\* GetDeviceConfig was asked of a store that holds no device record
C11_AskedWithoutRecord ==
    /\ pc = "write"
    /\ mgr
    /\ req.Cmd = CmdGetDeviceConfig
    /\ ~FsExists(before, deviceFile)
    /\ resp.Status = StatusError

\* C12: GetProfile for a slot in which no profile is stored answers NotFound
\* with an empty payload and changes nothing.
C12_EmptySlotIsNotFound ==
    (/\ pc = "write"
     /\ mgr
     /\ req.Cmd = CmdGetProfile
     /\ Len(req.Payload) = 1
     /\ ~FsExists(before, profilePath(req.Payload[1])))
        => /\ resp = [Status |-> StatusNotFound, Payload |-> <<>>]
           /\ flash = before

\* GetProfile was asked for an empty slot while another slot holds a profile
C12_EmptySlotAsked ==
    /\ pc = "write"
    /\ mgr
    /\ req \in GetProfileFrames
    /\ ~FsExists(before, profilePath(req.Payload[1]))
    /\ OccupiedSlots(before) # {}
    /\ resp.Status = StatusNotFound

PrescribedLen(cmd) ==
    CASE cmd = CmdSetDeviceConfig -> DeviceSize
      [] cmd \in {CmdGetProfile, CmdDeleteProfile} -> 1
      [] cmd = CmdSetProfile -> SetProfileLen
      [] OTHER -> 0

\* C14: for every command but Ping, a frame whose payload length differs
\* from the prescribed one (12, 1, 1, 287, and 0 for GetDeviceConfig,
\* ListProfiles, GetStorageStats, FactoryReset, GetVersion and Discover) is
\* answered InvalidData.
C14_WrongLengthIsInvalidData ==
    (/\ pc = "write"
     /\ mgr
     /\ req.Cmd \in (DefinedCmds \cup {CmdDiscover}) \ {CmdPing}
     /\ Len(req.Payload) # PrescribedLen(req.Cmd))
        => resp.Status = StatusInvalidData

\* C14, as far as the code goes: the four handlers that check a length
\* answer InvalidData to every other length and leave the store alone.
C14_SizedCommandsChecked ==
    (/\ pc = "write"
     /\ req.Cmd \in {CmdSetDeviceConfig, CmdGetProfile, CmdSetProfile,
                     CmdDeleteProfile}
     /\ Len(req.Payload) # PrescribedLen(req.Cmd))
        => /\ resp = [Status |-> StatusInvalidData, Payload |-> <<>>]
           /\ flash = before

\* C14, where it fails: a handler that takes no payload serves the command
\* as if the payload were empty.
C14_SurplusPayloadIgnored ==
    (/\ pc = "write"
     /\ mgr
     /\ req \in SurplusFrames)
        => /\ resp = Handle(before, mgr, Frame(req.Cmd, <<>>), NoFault).resp
           /\ resp.Status # StatusInvalidData

\* a FactoryReset carrying three payload bytes wiped a store that held data
C14_ResetWithPayloadWiped ==
    /\ pc = "write"
    /\ mgr
    /\ req = Frame(CmdFactoryReset, <<1, 2, 3>>)
    /\ resp.Status = StatusOK
    /\ OccupiedSlots(before) # {}
    /\ OccupiedSlots(flash) = {}

\* C15: a frame whose command byte is none of the defined codes (0x01-0x09,
\* 0x10, 0x7F) is answered InvalidCmd with an empty payload, for every such
\* byte and every payload, and the store is left alone.
C15_UnknownCommandIsInvalidCmd ==
    (/\ pc \in {"write", "halted"}
     /\ req # NoRequest
     /\ req.Cmd \notin DefinedCmds \cup {CmdDiscover})
        => /\ pc = "write"
           /\ resp = [Status |-> StatusInvalidCmd, Payload |-> <<>>]
           /\ flash = before

\* an undefined command byte next to a defined one arrived with a payload
\* that a defined command would have accepted
C15_UnknownWithPayload ==
    /\ pc = "write"
    /\ req.Cmd \in {10, 17}
    /\ Len(req.Payload) = DeviceSize
    /\ OccupiedSlots(before) # {}
    /\ resp.Status = StatusInvalidCmd

\* the ASCII bytes of "tuffpad"
Tuffpad == <<116, 117, 102, 102, 112, 97, 100>>

\* C16: Discover (0x7F) with an empty payload is answered OK with the seven
\* ASCII bytes "tuffpad", in every storage state, and the store is neither
\* read nor changed.
C16_DiscoverAnswersTuffpad ==
    (/\ pc \in {"write", "halted"}
     /\ req = Frame(CmdDiscover, <<>>))
        => /\ pc = "write"
           /\ resp = [Status |-> StatusOK, Payload |-> Tuffpad]
           /\ flash = before

\* C16, as the code behaves: the switch of Handle has no case for 0x7F, so
\* Discover is answered like any undefined command.
C16_DiscoverIsInvalidCmd ==
    (/\ pc \in {"write", "halted"}
     /\ req.Cmd = CmdDiscover)
        => /\ pc = "write"
           /\ resp = [Status |-> StatusInvalidCmd, Payload |-> <<>>]
           /\ flash = before

\* C17: when SetProfile or SetDeviceConfig fails because the filesystem
\* rejects the write for lack of space, the answer is NoSpace; every other
\* storage fault on a write is answered Error.
C17_NoSpaceReported ==
    (/\ pc = "write"
     /\ WriteTarget(req).writes
     /\ injected # NoFault)
        => resp.Status = IF injected.err = LfsErrNoSpace
                         THEN StatusNoSpace
                         ELSE StatusError

\* C17, as the code behaves: the storage manager never returns ErrFlashFull,
\* so every failed write is answered Error and NoSpace is never sent.
C17_EveryWriteFaultIsError ==
    /\ (pc = "write" /\ WriteTarget(req).writes /\ injected # NoFault)
           => resp = [Status |-> StatusError, Payload |-> <<>>]
    /\ resp.Status # StatusNoSpace

\* the filesystem ran out of space while the profile was being written
C17_WriteRejectedForSpace ==
    /\ pc = "write"
    /\ req \in SetProfileFrames
    /\ injected = [at |-> "write", err |-> LfsErrNoSpace]
    /\ resp.Status = StatusError

\* a well-formed frame of a command that calls into the storage manager
StorageBacked(frame) ==
    \/ frame.Cmd \in {CmdGetDeviceConfig, CmdListProfiles, CmdGetStorageStats,
                      CmdFactoryReset}
    \/ frame \in SetDeviceFrames \cup SetProfileFrames
    \/ frame \in GetProfileFrames \cup DeleteProfileFrames

\* C18: if storage.New failed at boot the device keeps running with the
\* dispatcher reachable: Ping still answers OK, and every storage-backed
\* command answers Error rather than crashing or hanging.
C18_ServesWithoutStorage ==
    (/\ pc \in {"write", "halted"}
     /\ ~mgr)
        => /\ pc = "write"
           /\ req.Cmd = CmdPing
                  => resp = [Status |-> StatusOK, Payload |-> req.Payload]
           /\ StorageBacked(req) => resp.Status = StatusError

\* C18, as the code behaves: the handler calls into the nil manager and the
\* firmware panics before any response is made; the commands that do not
\* reach the manager are answered as usual.
C18_PanicsWithoutStorage ==
    (/\ pc \in {"write", "halted"}
     /\ ~mgr)
        => /\ StorageBacked(req) <=> pc = "halted"
           /\ pc = "halted" => resp = NoResponse /\ flash = before
           /\ req.Cmd = CmdPing
                  => resp = [Status |-> StatusOK, Payload |-> req.Payload]

\* GetDeviceConfig reached a handler whose storage manager is nil
C18_StorageCommandWithoutStorage ==
    /\ pc = "halted"
    /\ ~mgr
    /\ req.Cmd = CmdGetDeviceConfig

\* the statuses a response may carry
EmittedStatuses ==
    {StatusOK, StatusError, StatusInvalidCmd, StatusInvalidData,
     StatusNotFound, StatusNoSpace, StatusVersionMismatch}

\* C19: in every reachable state of the serial loop no response carries
\* CRCError: every response handed to WriteResponse has one of the statuses
\* OK, Error, InvalidCmd, InvalidData, NotFound, NoSpace, VersionMismatch,
\* and a frame that ReadFrame rejects gets no response at all.
C19_NoCrcErrorStatus ==
    /\ resp.Status # StatusCRCError
    /\ pc = "write" => resp.Status \in EmittedStatuses
    /\ pc # "write" => resp = NoResponse
    /\ pc = "skip" => rx.err # ErrNil /\ req = NoRequest /\ flash = before

\* a frame whose CRC does not match was received and dropped
C19_CrcMismatchDropped ==
    /\ pc = "skip"
    /\ rx.err = ErrCRCMismatch
    /\ wire = BadCrc(Frame(CmdFactoryReset, <<>>))
    /\ OccupiedSlots(flash) # {}

\* C20: for every command byte and every payload of 0..4096 bytes,
\* ReadFrame applied to the bytes WriteFrame produced returns a frame with
\* the same command and payload, and consumes exactly those bytes.
C20_FrameRoundTrip ==
    (/\ pc = "received"
     /\ Len(req.Payload) <= MaxPayloadLen)
        => /\ rx.err = ErrNil
           /\ rx.frame = req
           /\ rx.n = Len(wire)
           /\ rx.rest \in Tails
           /\ Len(wire) = 6 + Len(req.Payload)

\* a payload of exactly 4096 bytes went through, with bytes following it
C20_LongestFrameRead ==
    /\ pc = "received"
    /\ Len(req.Payload) = MaxPayloadLen
    /\ rx.err = ErrNil
    /\ rx.rest # <<>>

\* the index of the byte of wire that differs from what WriteFrame produced
FlippedAt == CHOOSE i \in 1..Len(wire) : wire[i] # WriteFrame(req)[i]

\* the number of bytes that followed wire in the reader ReadFrame was given
TailLen == rx.n + Len(rx.rest) - Len(wire)

\* C21: for every frame produced by WriteFrame, inverting any single bit of
\* its command byte, length field, payload or CRC makes ReadFrame on those
\* bytes fail with ErrInvalidFrame or ErrCRCMismatch; it never returns a
\* frame and never fails with another error.
C21_BitFlipRejected ==
    (/\ pc = "misread"
     /\ TailLen = 0)
        => /\ rx.err \in {ErrInvalidFrame, ErrCRCMismatch}
           /\ rx.frame = NoRequest

\* C21, the part the CRC guarantees: a bit inverted in the command byte, the
\* payload or the CRC leaves the length as it was and is always caught by
\* the CRC comparison, whatever follows the frame.
C21_FlipOutsideLengthIsCrcMismatch ==
    (/\ pc = "misread"
     /\ FlippedAt \notin {3, 4})
        => /\ rx.err = ErrCRCMismatch
           /\ rx.frame = NoRequest

\* C21, where it fails: a bit inverted in the length field never yields the
\* frame that was sent, but it can end in an error of the reader, and it can
\* yield a different frame.
C21_FlipInLengthOutcomes ==
    (/\ pc = "misread"
     /\ FlippedAt \in {3, 4})
        => /\ rx.err \in {ErrInvalidFrame, ErrCRCMismatch, IoEOF,
                          IoErrUnexpectedEOF, ErrNil}
           /\ rx.frame # req

\* C21, the damaged frames that are accepted: only a payload that holds a
\* shorter frame's CRC right after the shortened length, and then ReadFrame
\* returns that shorter frame and leaves the rest in the reader.
C21_AcceptedOnlyWhenEmbedded ==
    (/\ pc = "misread"
     /\ rx.err = ErrNil)
        => /\ req = EmbeddingFrame
           /\ FlippedAt = 3
           /\ rx.frame = Frame(CmdPing, <<1>>)
           /\ rx.n = 7

\* the bytes are a whole frame (sync byte, admissible length, payload, CRC
\* field) whose CRC field differs from the CRC16-CCITT of
\* [command][len_lo][len_hi][payload]
CrcDiffers(bytes) ==
    /\ Len(bytes) >= 6
    /\ bytes[1] = SyncByte
    /\ Uint16(bytes, 2) <= MaxPayloadLen
    /\ Len(bytes) >= 6 + Uint16(bytes, 2)
    /\ Uint16(bytes, 4 + Uint16(bytes, 2))
           # calcCRC(SubSeq(bytes, 2, 4 + Uint16(bytes, 2)))

\* C22: when the received CRC differs from the CRC16-CCITT computed over
\* [command][len_lo][len_hi][payload], ReadFrame returns ErrCRCMismatch and
\* no frame; the loop does not pass the frame to Handler.Handle, changes no
\* storage and writes no response for it.
C22_CrcMismatchDiscarded ==
    (/\ pc \in {"skip", "write", "halted"}
     /\ CrcDiffers(wire))
        => /\ pc = "skip"
           /\ rx.err = ErrCRCMismatch
           /\ rx.frame = NoRequest
           /\ rx.n = 6 + Uint16(wire, 2)
           /\ req = NoRequest
           /\ resp = NoResponse
           /\ flash = before

\* a DeleteProfile frame for an occupied slot arrived with a wrong CRC
C22_DeleteWithBadCrcDropped ==
    /\ pc = "skip"
    /\ wire = BadCrc(Frame(CmdDeleteProfile, <<SlotOf(1)>>))
    /\ SlotOf(1) \in OccupiedSlots(flash)
    /\ rx.err = ErrCRCMismatch

\* bytes are [0xAA][code][len_lo][len_hi][payload][crc_lo][crc_hi], the CRC
\* being that of [code][len_lo][len_hi][payload]
HasFrameLayout(bytes, code, payload) ==
    /\ Len(bytes) = 6 + Len(payload)
    /\ bytes[1] = SyncByte
    /\ bytes[2] = code
    /\ bytes[3] = Len(payload) % 256
    /\ bytes[4] = Len(payload) \div 256
    /\ SubSeq(bytes, 5, 4 + Len(payload)) = payload
    /\ Uint16(bytes, 4 + Len(payload))
           = calcCRC(SubSeq(bytes, 2, 4 + Len(payload)))

\* C23: WriteResponse hands the transport exactly one buffer per response:
\* one Write call, whose bytes are
\* [0xAA][status][len_lo][len_hi][payload][crc_lo][crc_hi] with the CRC
\* computed over [status][len_lo][len_hi][payload].  (The log only grows by
\* appending, so the layout is stated of the Write call just made.)
C23_OneWritePerResponse ==
    /\ \A i \in 1..Len(log) :
          log[i].op = "write"
              => /\ i > 1
                 /\ log[i - 1].op = "read"
                 /\ log[i - 1].err = ErrNil
                 /\ Len(log[i].bytes) = 6 + Len(log[i - 1].resp.Payload)
    /\ (log # <<>> /\ log[Len(log)].op = "write")
           => HasFrameLayout(log[Len(log)].bytes,
                             log[Len(log) - 1].resp.Status,
                             log[Len(log) - 1].resp.Payload)
    /\ \A i \in 1..(Len(log) - 1) :
          (log[i].op = "read" /\ log[i].err = ErrNil)
              => log[i + 1].op = "write"

\* a GetProfile response, whose length needs both length bytes, was written
C23_ProfileResponseWritten ==
    /\ Len(log) >= 2
    /\ log[Len(log)].op = "write"
    /\ log[Len(log) - 1].frame.Cmd = CmdGetProfile
    /\ log[Len(log) - 1].resp.Status = StatusOK
    /\ Len(log[Len(log)].bytes) = 6 + ProfileSize

\* the bytes the ReadFrame calls of a log took from the reader, in order
RECURSIVE Consumed(_)
Consumed(l) ==
    IF l = <<>> THEN <<>>
    ELSE (IF Head(l).op = "read" THEN Head(l).bytes ELSE <<>>)
             \o Consumed(Tail(l))

\* the frames a log's ReadFrame calls returned, in order
RECURSIVE DispatchedFrames(_)
DispatchedFrames(l) ==
    IF l = <<>> THEN <<>>
    ELSE (IF Head(l).op = "read" /\ Head(l).err = ErrNil
          THEN <<Head(l).frame>> ELSE <<>>)
             \o DispatchedFrames(Tail(l))

\* the streams that are nothing but whole frames, by the frames sent
FrameStreams ==
    [fs \in ListsUpTo(StreamFrames, MaxStreamItems) |-> EncodeAll(fs)]

IsPrefix(a, b) == Len(a) <= Len(b) /\ a = SubSeq(b, 1, Len(a))

\* C24: the serial loop is half-duplex and ordered.  A frame that was read
\* is dispatched and its response written before the next read begins; a
\* failed read is followed by nothing but the next read; and when the host
\* sent nothing but whole frames, the frames dispatched (and so the
\* responses written) are those frames in the order of their arrival.
C24_HalfDuplexInOrder ==
    /\ \A i \in 1..Len(log) :
          /\ (log[i].op = "write")
                 => /\ i > 1
                    /\ log[i - 1].op = "read"
                    /\ log[i - 1].err = ErrNil
                    /\ log[i].bytes[2] = log[i - 1].resp.Status
                    /\ SubSeq(log[i].bytes, 5, Len(log[i].bytes) - 2)
                           = log[i - 1].resp.Payload
          /\ (log[i].op = "read" /\ log[i].err = ErrNil /\ i < Len(log))
                 => log[i + 1].op = "write"
          /\ (log[i].op = "read" /\ log[i].err # ErrNil)
                 => /\ log[i].resp = NoResponse
                    /\ i < Len(log) => log[i + 1].op = "read"
    /\ (pc = "write")
           <=> /\ log # <<>>
               /\ log[Len(log)].op = "read"
               /\ log[Len(log)].err = ErrNil
    /\ \A fs \in DOMAIN FrameStreams :
          (Consumed(log) \o wire = FrameStreams[fs])
              => IsPrefix(DispatchedFrames(log), fs)

\* two different frames arrived back to back and both were answered
C24_TwoFramesAnswered ==
    /\ Len(log) = 4
    /\ log[1].op = "read" /\ log[1].err = ErrNil
    /\ log[2].op = "write"
    /\ log[3].op = "read" /\ log[3].err = ErrNil
    /\ log[4].op = "write"
    /\ log[1].frame # log[3].frame
    /\ log[2].bytes # log[4].bytes

\* a read failed, and the next thing the loop did was to read again
C24_FailedReadThenRead ==
    /\ Len(log) >= 2
    /\ log[1].op = "read" /\ log[1].err = ErrCRCMismatch
    /\ log[2].op = "read" /\ log[2].err = ErrNil

\* the bytes the host has sent: those the loop has read and those it has not
SentStream == Consumed(log) \o wire

\* the streams that are garbage followed by one whole frame, by that frame
GarbageThenFrame ==
    [f \in StreamFrames |->
        {Concat(g) \o WriteFrame(f) :
            g \in ListsUpTo(GarbageItems, MaxStreamItems - 1)}]

\* the same for garbage in which every sync byte begins a whole frame or
\* a header that ReadFrame rejects for its length
FramedGarbageThenFrame ==
    [f \in StreamFrames |->
        {Concat(g) \o WriteFrame(f) :
            g \in ListsUpTo(GarbageItems \ {StraySync}, MaxStreamItems - 1)}]

\* the stream is read to its end, and the last the loop did was to read
\* frame f from it and to write a response
FrameAnswered(f) ==
    /\ wire = <<>>
    /\ Len(log) >= 2
    /\ log[Len(log)].op = "write"
    /\ log[Len(log) - 1].op = "read"
    /\ log[Len(log) - 1].err = ErrNil
    /\ log[Len(log) - 1].frame = f
    /\ log[Len(log) - 1].bytes = WriteFrame(f)

\* C25: the loop resynchronises by itself.  After any finite sequence of
\* garbage bytes, or any failed read or write, a complete valid frame that
\* follows is eventually dispatched and its response written; the loop
\* never stops.
C25_Resynchronises ==
    \A f \in StreamFrames :
        (SentStream \in GarbageThenFrame[f]) ~> FrameAnswered(f)

\* C25, as the code behaves: the frame is reached when every sync byte of
\* the garbage begins a whole frame (with whatever CRC) or a header with a
\* length over 4096, and the garbage is otherwise free of sync bytes
C25_ResynchronisesAfterFramedGarbage ==
    \A f \in StreamFrames :
        (SentStream \in FramedGarbageThenFrame[f]) ~> FrameAnswered(f)

\* a stray sync byte made ReadFrame take the frame that followed it for the
\* header and payload of another, and the stream ended without a response
C25_FrameSwallowed ==
    /\ wire = <<>>
    /\ pc = "read"
    /\ SentStream = StraySync \o WriteFrame(Frame(CmdPing, <<1, 2, 3>>))
    /\ Len(log) = 1
    /\ log[1].err = IoErrUnexpectedEOF

(***************************************************************************)
(* The execution contexts of main: the main goroutine, which runs the      *)
(* statements of main one after the other, and the goroutine it starts     *)
(* for Serial.Handle.  Here pc is a record: main is the index in           *)
(* mainProgram of the statement the main goroutine is at, inNew says that  *)
(* it is inside storage.New, and serial is where the serial goroutine is:  *)
(* "none" (not started), "read", "handle" (Handler.Handle called),         *)
(* "in_storage" (inside a method of the storage manager), "write",         *)
(* "halted".  The two goroutines take their steps in any order.            *)
(***************************************************************************)
\* a main that starts the serial goroutine before it initialises storage
mainProgramSerialFirst == <<"NewHandler", "go", "New", "select">>

\* the statements of main that matter, in program order
mainProgram == <<"New", "NewHandler", "go", "select">>

\* the frames the host sends while the contexts are observed
TaskFrames ==
    PingFrames \cup GetProfileFrames \cup SetProfileFrames
        \cup {Frame(CmdListProfiles, <<>>), Frame(CmdFactoryReset, <<>>),
              Frame(CmdGetStorageStats, <<>>)}

InitTasks ==
    /\ flash \in InitImages
    /\ pc = [main |-> 1, inNew |-> FALSE, serial |-> "none"]
    /\ mgr = FALSE
    /\ req = NoRequest
    /\ resp = NoResponse
    /\ injected = NoFault
    /\ before = flash
    /\ intr = NoIntr
    /\ wire = <<>>
    /\ rx = NoRx
    /\ log = <<>>

\* main: storage.New(machine.Flash, true) is called
MainCallsNew ==
    /\ mainProgram[pc.main] = "New"
    /\ ~pc.inNew
    /\ pc' = [pc EXCEPT !.inNew = TRUE]
    /\ UNCHANGED <<flash, mgr, req, resp, injected, before, intr, wire, rx,
                   log>>

\* main: storage.New returns
MainReturnsFromNew ==
    /\ mainProgram[pc.main] = "New"
    /\ pc.inNew
    /\ \E formatOK \in (IF flash.formatted THEN {TRUE} ELSE BOOLEAN) :
          \E n \in {New(flash, TRUE, formatOK)} :
              /\ flash' = Final(flash, n.trace)
              /\ mgr' = (n.err = ErrNil)
    /\ pc' = [pc EXCEPT !.inNew = FALSE, !.main = @ + 1]
    /\ UNCHANGED <<req, resp, injected, before, intr, wire, rx, log>>

\* main: protocol.NewHandler, serial.NewSerial, SetDisplay
MainNewHandler ==
    /\ mainProgram[pc.main] = "NewHandler"
    /\ pc' = [pc EXCEPT !.main = @ + 1]
    /\ UNCHANGED <<flash, mgr, req, resp, injected, before, intr, wire, rx,
                   log>>

\* main: go mainSerial.Handle()
MainStartsSerial ==
    /\ mainProgram[pc.main] = "go"
    /\ pc' = [pc EXCEPT !.main = @ + 1, !.serial = "read"]
    /\ UNCHANGED <<flash, mgr, req, resp, injected, before, intr, wire, rx,
                   log>>

\* Serial.Handle: ReadFrame returns a frame and Handler.Handle is called
TaskReadsFrame ==
    /\ pc.serial = "read"
    /\ \E frame \in TaskFrames : req' = frame
    /\ pc' = [pc EXCEPT !.serial = "handle"]
    /\ UNCHANGED <<flash, mgr, resp, injected, before, intr, wire, rx, log>>

\* Handler.Handle of a command that does not touch storage returns
TaskHandlesAlone ==
    /\ pc.serial = "handle"
    /\ ~StorageBacked(req)
    /\ resp' = Handle(flash, mgr, req, NoFault).resp
    /\ pc' = [pc EXCEPT !.serial = "write"]
    /\ UNCHANGED <<flash, mgr, req, injected, before, intr, wire, rx, log>>

\* Handler.Handle calls a method of the storage manager
TaskEntersStorage ==
    /\ pc.serial = "handle"
    /\ StorageBacked(req)
    /\ pc' = [pc EXCEPT !.serial = "in_storage"]
    /\ UNCHANGED <<flash, mgr, req, resp, injected, before, intr, wire, rx,
                   log>>

\* the method returns, and Handler.Handle with it; or it panics
TaskLeavesStorage ==
    /\ pc.serial = "in_storage"
    /\ \E h \in {Handle(flash, mgr, req, NoFault)} :
          /\ flash' = Final(flash, h.trace)
          /\ resp' = h.resp
          /\ pc' = [pc EXCEPT
                       !.serial = IF h.panic THEN "halted" ELSE "write"]
    /\ UNCHANGED <<mgr, req, injected, before, intr, wire, rx, log>>

\* Serial.Handle: WriteResponse, then back to ReadFrame
TaskWritesResponse ==
    /\ pc.serial = "write"
    /\ pc' = [pc EXCEPT !.serial = "read"]
    /\ req' = NoRequest
    /\ resp' = NoResponse
    /\ UNCHANGED <<flash, mgr, injected, before, intr, wire, rx, log>>

NextTasks ==
    \/ MainCallsNew
    \/ MainReturnsFromNew
    \/ MainNewHandler
    \/ MainStartsSerial
    \/ TaskReadsFrame
    \/ TaskHandlesAlone
    \/ TaskEntersStorage
    \/ TaskLeavesStorage
    \/ TaskWritesResponse

SpecTasks == InitTasks /\ [][NextTasks]_vars

\* the execution contexts that are inside an operation of the storage
\* package
InStorage ==
    (IF pc.inNew THEN {"main"} ELSE {})
        \cup (IF pc.serial = "in_storage" THEN {"serial"} ELSE {})

\* C26: no two execution contexts execute storage manager operations at the
\* same time: the serial goroutine does not exist until storage.New has
\* returned, the main goroutine calls nothing of the storage package after
\* it, and so the serial goroutine is the only caller.
C26_OneStorageCaller ==
    /\ Cardinality(InStorage) <= 1
    /\ pc.serial # "none" => (~pc.inNew /\ mainProgram[pc.main] = "select")
    /\ pc.inNew => pc.serial = "none"

\* the serial goroutine is inside a write to the store that storage.New
\* opened
C26_SerialInStorage ==
    /\ pc.serial = "in_storage"
    /\ mgr
    /\ req \in SetProfileFrames
    /\ mainProgram[pc.main] = "select"

(***************************************************************************)
(* Stores of every filling: the host lists the profiles, asks for the      *)
(* statistics and deletes profiles on stores that hold from no profile to  *)
(* one in each of the 256 slots.                                           *)
(***************************************************************************)
\* what every profile file of these stores holds
FilledProfile == ProfilePayload(CurrentVersion, 1)

\* a store in which SaveProfile has succeeded for exactly the slots given
StoreWith(occupied) ==
    [formatted |-> TRUE,
     dirs |-> {configDir, profilesDir},
     files |-> [path \in {profilePath(slot) : slot \in occupied}
                   |-> FilledProfile]]

\* the sets of occupied slots: the lowest k and the highest k slots for few
\* k, about half of the slots, and all or all but one or two of them
Fillings ==
    {0..(k - 1) : k \in 0..MaxFewSlots}
        \cup {(256 - k)..255 : k \in 1..8}
        \cup {0..126, 0..127, 0..253, 0..254, 0..255, 1..255}

InitFilled ==
    /\ flash \in {StoreWith(occupied) : occupied \in Fillings}
                     \cup {FormattedFlash}
    /\ pc = "read"
    /\ mgr = TRUE
    /\ req = NoRequest
    /\ resp = NoResponse
    /\ injected = NoFault
    /\ before = flash
    /\ intr = NoIntr
    /\ wire = <<>>
    /\ rx = NoRx
    /\ log = <<>>

NextFilled ==
    \/ OnListProfiles
    \/ OnGetStorageStats
    \/ OnDeleteProfile
    \/ WriteResponse

SpecFilled == InitFilled /\ [][NextFilled]_vars

\* the number of occupied slots of the store
OccupiedCount == Cardinality(OccupiedSlots(flash))

\* C27: the ListProfiles response payload is [count][slot...]: the count
\* byte is the number of occupied slots and the payload is 1 + count bytes
\* long, for every number of occupied slots from 0 to 256.
C27_CountByteIsOccupied ==
    (pc = "write" /\ req.Cmd = CmdListProfiles)
        => /\ resp.Status = StatusOK
           /\ Len(resp.Payload) >= 1
           /\ resp.Payload[1] = OccupiedCount
           /\ Len(resp.Payload) = 1 + resp.Payload[1]

\* C27, as the code behaves: where the profiles directory exists the
\* payload is 1 + n bytes for n occupied slots, names exactly those slots,
\* and its count byte is n modulo 256, which is n up to 255 and 0 for the
\* full store
C27_CountByteWraps ==
    (pc = "write" /\ req.Cmd = CmdListProfiles /\ profilesDir \in flash.dirs)
        => /\ resp.Status = StatusOK
           /\ Len(resp.Payload) = 1 + OccupiedCount
           /\ resp.Payload[1] = OccupiedCount % 256
           /\ ListedSlots(resp) = OccupiedSlots(flash)
           /\ OccupiedCount <= 255 => resp.Payload[1] = OccupiedCount

\* the profiles of a store with all 256 slots occupied were listed
C27_FullStoreListed ==
    /\ pc = "write"
    /\ req.Cmd = CmdListProfiles
    /\ OccupiedCount = 256
    /\ resp.Payload[1] = 0
    /\ Len(resp.Payload) = 257

\* C28: GetStats reports the number of occupied slots as profileCount,
\* 320 * profileCount + 100 as usedSpace, the size of the block device as
\* totalSpace and their difference as freeSpace; the GetStorageStats
\* response is 13 bytes: total, used and free as little-endian u32, then
\* profileCount; used and free do not exceed total.
C28_StatsAreTheEstimate ==
    (pc = "write" /\ req.Cmd = CmdGetStorageStats)
        => /\ GetStats(flash).err = ErrNil
           /\ GetStats(flash).val.ProfileCount = OccupiedCount
           /\ GetStats(flash).val.UsedSpace
                  = ProfileOverhead * OccupiedCount + FixedOverhead
           /\ GetStats(flash).val.TotalSpace = BlockDevSize
           /\ GetStats(flash).val.FreeSpace
                  = BlockDevSize
                        - (ProfileOverhead * OccupiedCount + FixedOverhead)
           /\ resp.Status = StatusOK
           /\ Len(resp.Payload) = 13
           /\ Uint32(resp.Payload, 0) = ToUint32(BlockDevSize)
           /\ Uint32(resp.Payload, 4)
                  = ToUint32(ProfileOverhead * OccupiedCount + FixedOverhead)
           /\ Uint32(resp.Payload, 8)
                  = ToUint32(BlockDevSize
                        - (ProfileOverhead * OccupiedCount + FixedOverhead))
           /\ resp.Payload[13] = OccupiedCount
           /\ ProfileOverhead * OccupiedCount + FixedOverhead <= BlockDevSize

\* C28, as the code behaves: everything but the last byte is as claimed,
\* and the last byte is profileCount modulo 256
C28_CountByteWraps ==
    (pc = "write" /\ req.Cmd = CmdGetStorageStats)
        => /\ GetStats(flash).err = ErrNil
           /\ GetStats(flash).val
                  = [TotalSpace |-> BlockDevSize,
                     UsedSpace |-> 320 * OccupiedCount + 100,
                     FreeSpace |-> BlockDevSize - (320 * OccupiedCount + 100),
                     ProfileCount |-> OccupiedCount]
           /\ resp.Status = StatusOK
           /\ Len(resp.Payload) = 13
           /\ SubSeq(resp.Payload, 1, 12)
                  = PutUint32(ToUint32(BlockDevSize))
                        \o PutUint32(ToUint32(320 * OccupiedCount + 100))
                        \o PutUint32(ToUint32(BlockDevSize
                                         - (320 * OccupiedCount + 100)))
           /\ resp.Payload[13] = OccupiedCount % 256
           /\ 320 * OccupiedCount + 100 <= BlockDevSize

\* the statistics of a store with all 256 slots occupied were asked for
C28_FullStoreStats ==
    /\ pc = "write"
    /\ req.Cmd = CmdGetStorageStats
    /\ OccupiedCount = 256
    /\ resp.Payload[13] = 0

(***************************************************************************)
(* The record codec of pkg/config on its own.  A record is marshalled and  *)
(* the bytes unmarshalled again (req is the record, wire its bytes, rx     *)
(* what UnmarshalBinary made of them), or bytes are unmarshalled and the   *)
(* record marshalled again (wire, rx, then resp); SetName names a profile  *)
(* (log holds the name it was given).                                      *)
(***************************************************************************)
\* n bytes, all zero but the k-th, which is v
UnitBytes(n, k, v) == [i \in 1..n |-> IF i = k THEN v ELSE 0]

\* n bytes that differ from place to place
PatternBytes(n, seed) == [i \in 1..n |-> (seed * 97 + i * 31) % 256]

\* the inputs of UnmarshalBinary: for every offset of a record the input
\* that is non-zero only there, and inputs that are non-zero everywhere
CodecBytes ==
    {UnitBytes(ProfileSize, k, 255) : k \in 1..ProfileSize}
        \cup {UnitBytes(DeviceSize, k, 255) : k \in 1..DeviceSize}
        \cup {PatternBytes(ProfileSize, seed) : seed \in Seeds}
        \cup {PatternBytes(DeviceSize, seed) : seed \in Seeds}
        \cup {[i \in 1..ProfileSize |-> 0], [i \in 1..ProfileSize |-> 255],
              [i \in 1..DeviceSize |-> 0], [i \in 1..DeviceSize |-> 255]}

\* a binding whose fields all differ from zero and from binding to binding
BindingOf(i) ==
    [InputType |-> i % 4, InputID |-> i, OutputType |-> 1 + (i % 4),
     OutputValue |-> 256 * i + 255 - i, Modifiers |-> 128 + i,
     Flags |-> 2 * i + 1, Reserved |-> 255 - i]

\* a profile with every one of its 32 bindings set and the binding count
\* given, which need not be 32
ProfileOfCount(count) ==
    [Version |-> CurrentVersion, Flags |-> <<22136, 4660>>,
     RGBColor |-> <<65280, 255>>, RGBPattern |-> 3, Reserved1 |-> 171,
     BindingCount |-> count, Reserved2 |-> 205,
     Name |-> [i \in 1..NameLen |-> 64 + i],
     Bindings |-> [i \in 1..NumBindings |-> BindingOf(i)]]

CodecProfiles ==
    {ZeroProfile} \cup {ProfileOfCount(count) : count \in {0, 1, 31, 32, 255}}

CodecDevices ==
    {ZeroDeviceConfig,
     [Version |-> 1, Flags |-> <<22136, 4660>>, ActiveProfile |-> 5,
      Brightness |-> 128, DebounceMs |-> 10, Reserved1 |-> 0,
      Reserved2 |-> 43981],
     [Version |-> 65535, Flags |-> <<65535, 65535>>, ActiveProfile |-> 255,
      Brightness |-> 255, DebounceMs |-> 255, Reserved1 |-> 255,
      Reserved2 |-> 65535]}

\* names without a zero byte, of every length up to MaxNameLen, and one of
\* 30 bytes
Names ==
    {[i \in 1..n |-> 96 + i] : n \in 0..MaxNameLen}
        \cup {[i \in 1..n |-> 256 - i] : n \in 1..MaxNameLen}
        \cup {[i \in 1..30 |-> 200 + i]}

IsProfile(v) == "Bindings" \in DOMAIN v

InitCodec ==
    /\ flash = BlankFlash
    /\ mgr = FALSE
    /\ resp = NoResponse
    /\ injected = NoFault
    /\ before = flash
    /\ intr = NoIntr
    /\ rx = NoRx
    /\ log = <<>>
    /\ \/ /\ pc = "bytes"
          /\ wire \in CodecBytes
          /\ req = NoRequest
       \/ /\ pc = "struct"
          /\ wire = <<>>
          /\ req \in CodecProfiles \cup CodecDevices

\* p.SetName(name)
CallSetName ==
    /\ pc = "struct"
    /\ IsProfile(req)
    /\ pc' = "named"
    /\ \E name \in Names :
          /\ req' = SetName(req, name)
          /\ log' = <<name>>
    /\ UNCHANGED <<flash, mgr, resp, injected, before, intr, wire, rx>>

\* MarshalBinary of the record
MarshalRecord ==
    /\ pc \in {"struct", "named"}
    /\ pc' = "encoded"
    /\ wire' = IF IsProfile(req) THEN ProfileMarshalBinary(req)
               ELSE DeviceMarshalBinary(req)
    /\ UNCHANGED <<flash, mgr, req, resp, injected, before, intr, rx, log>>

\* UnmarshalBinary of the bytes MarshalBinary returned
UnmarshalEncoded ==
    /\ pc = "encoded"
    /\ pc' = "restored"
    /\ rx' = IF IsProfile(req) THEN ProfileUnmarshalBinary(wire)
             ELSE DeviceUnmarshalBinary(wire)
    /\ UNCHANGED <<flash, mgr, req, resp, injected, before, intr, wire, log>>

\* UnmarshalBinary of input bytes, into a profile when there are 286 of
\* them and into a device config when there are 12
UnmarshalBytes ==
    /\ pc = "bytes"
    /\ pc' = "decoded"
    /\ rx' = IF Len(wire) = ProfileSize THEN ProfileUnmarshalBinary(wire)
             ELSE DeviceUnmarshalBinary(wire)
    /\ UNCHANGED <<flash, mgr, req, resp, injected, before, intr, wire, log>>

\* MarshalBinary of the record UnmarshalBinary filled
MarshalDecoded ==
    /\ pc = "decoded"
    /\ pc' = "reencoded"
    /\ resp' = IF IsProfile(rx.val) THEN ProfileMarshalBinary(rx.val)
               ELSE DeviceMarshalBinary(rx.val)
    /\ UNCHANGED <<flash, mgr, req, injected, before, intr, wire, rx, log>>

NextCodec ==
    \/ CallSetName
    \/ MarshalRecord
    \/ UnmarshalEncoded
    \/ UnmarshalBytes
    \/ MarshalDecoded

SpecCodec == InitCodec /\ [][NextCodec]_vars

C29_LastByteReencoded ==
    /\ pc = "reencoded"
    /\ wire = UnitBytes(ProfileSize, ProfileSize, 255)
    /\ rx.val.Bindings[NumBindings].Reserved = 255

\* C30: for every name without a zero byte, GetName after SetName returns
\* the name if it has at most 15 bytes and its first 15 bytes otherwise,
\* and the byte of Name right after the stored name is 0.
C30_SetNameThenGetName ==
    (pc = "named")
        => /\ GetName(req)
                  = (IF Len(log[1]) <= 15 THEN log[1]
                     ELSE SubSeq(log[1], 1, 15))
           /\ Len(GetName(req)) <= 15
           /\ req.Name[Len(GetName(req)) + 1] = 0

\* a short name was set on a profile whose Name held sixteen non-zero bytes
C30_ShortNameOverLongOne ==
    /\ pc = "named"
    /\ Len(log[1]) = 3
    /\ req.Name[5] # 0
    /\ req.Name[NameLen] # 0
    /\ GetName(req) = log[1]

\* a name of more than 15 bytes was set
C30_LongNameTruncated ==
    /\ pc = "named"
    /\ Len(log[1]) = 30
    /\ Len(GetName(req)) = 15

(***************************************************************************)
(* The store an earlier firmware leaves when the user saved profiles and   *)
(* never a device config: profiles of that firmware's format version and   *)
(* no /config/device.bin.                                                  *)
(***************************************************************************)
\* an image with a profile of version v and no device config
ProfilesOnlyImage(v) == FsRemove(ImageOfVersion(v, FALSE), deviceFile).fs

LegacyImages == {ProfilesOnlyImage(v) : v \in WrongVersions}

InitLegacy ==
    /\ flash \in InitImages \cup LegacyImages
    /\ pc = "off"
    /\ mgr = FALSE
    /\ req = NoRequest
    /\ resp = NoResponse
    /\ injected = NoFault
    /\ before = flash
    /\ intr = NoIntr
    /\ wire = <<>>
    /\ rx = NoRx
    /\ log = <<>>

\* the device booting on such a store and answering the profile commands
NextLegacy ==
    \/ PowerOn
    \/ PowerLossInNew
    \/ StartSerial
    \/ OnGetProfile
    \/ OnSetProfile
    \/ OnDeleteProfile
    \/ OnListProfiles
    \/ OnSetDeviceConfig
    \/ WriteResponse
    \/ PowerOff

SpecLegacy == InitLegacy /\ [][NextLegacy]_vars

\* C31: once storage.New has returned a manager, every profile that
\* LoadProfile returns without error, and every profile a GetProfile
\* response carries with status OK, has its version field equal to
\* CurrentVersion, whatever mountable content the flash held at power-on.
C31_LoadedProfileIsCurrent ==
    /\ (mgr /\ pc \in {"boot", "read", "write"})
          => \A slot \in Slots :
                LoadProfile(flash, slot).err = ErrNil
                    => LoadProfile(flash, slot).val.Version = CurrentVersion
    /\ (pc = "write" /\ req.Cmd = CmdGetProfile /\ resp.Status = StatusOK)
          => Uint16(resp.Payload, 0) = CurrentVersion

\* C31, as the code behaves: the version gate is the device config's; a
\* profile is returned with a version other than CurrentVersion only on a
\* store whose boot found no device config to compare
C31_GateIsTheDeviceConfig ==
    (pc = "write" /\ req.Cmd = CmdGetProfile /\ resp.Status = StatusOK
        /\ Uint16(resp.Payload, 0) # CurrentVersion)
        => \/ ~FsExists(flash, deviceFile)
           \/ LoadDevice(flash).val.Version = CurrentVersion

\* GetProfile answered OK with a profile of another format version
C31_OldProfileReturned ==
    /\ pc = "write"
    /\ req.Cmd = CmdGetProfile
    /\ resp.Status = StatusOK
    /\ Uint16(resp.Payload, 0) # CurrentVersion

(***************************************************************************)
(* atomicWrite when a call on the temporary file fails                     *)
(***************************************************************************)
\* the calls atomicWrite makes on the temporary file before the rename
TempFileCalls == {"open", "write", "sync", "close"}

\* the image atomicWrite starts from when a save is dispatched on image f
AfterEnsureDirs(f, fault) == Final(f, ensureDirs(f, fault).trace)

\* C32: when OpenFile, Write, Sync or Close of the temporary file fails,
\* atomicWrite returns that error, no temporary file of the target is left,
\* and the target file is what it was before the call.
C32_TempFileFailureLeavesTarget ==
    (pc = "write" /\ injected.at \in TempFileCalls /\ WriteTarget(req).writes)
        => \E path \in {WriteTarget(req).path} :
           \E w \in {atomicWrite(AfterEnsureDirs(before, injected), path,
                                 req.Payload, injected)} :
              /\ w.err = injected.err
              /\ flash = Final(AfterEnsureDirs(before, injected), w.trace)
              /\ ~FsExists(flash, TempPathOf(path))
              /\ FileOrNone(flash, path) = FileOrNone(before, path)
              /\ resp.Status # StatusOK

\* a save over a stored record failed after the temporary file was created
C32_FailedOverStoredRecord ==
    /\ pc = "write"
    /\ injected.at \in {"write", "sync", "close"}
    /\ WriteTarget(req).writes
    /\ FsExists(before, WriteTarget(req).path)
    /\ resp.Status = StatusError
    /\ flash = before

\* C33: whenever SaveProfile or SaveDevice returns an error, at whichever
\* filesystem call, the record stored at the target before the call is
\* still there with its prior content.
C33_FailedSaveKeepsRecord ==
    (/\ pc = "write"
     /\ WriteTarget(req).writes
     /\ resp.Status = StatusError
     /\ FsExists(before, WriteTarget(req).path))
        => FileOrNone(flash, WriteTarget(req).path)
               = FileOrNone(before, WriteTarget(req).path)

\* C33, as the code behaves: a save that fails before the rename keeps the
\* stored record; a save whose rename fails has already removed the target
\* and leaves neither the old record nor the new one
C33_FailedRenameLosesRecord ==
    (/\ pc = "write"
     /\ WriteTarget(req).writes
     /\ resp.Status = StatusError
     /\ FsExists(before, WriteTarget(req).path))
        => IF injected.at = "rename"
           THEN /\ ~FsExists(flash, WriteTarget(req).path)
                /\ ~FsExists(flash, TempPathOf(WriteTarget(req).path))
           ELSE FileOrNone(flash, WriteTarget(req).path)
                    = FileOrNone(before, WriteTarget(req).path)

\* the rename of a save over a stored profile failed
C33_RenameFailedOverStoredProfile ==
    /\ pc = "write"
    /\ req \in SetProfileFrames
    /\ injected.at = "rename"
    /\ resp.Status = StatusError
    /\ FsExists(before, WriteTarget(req).path)
    /\ ~FsExists(flash, WriteTarget(req).path)

(***************************************************************************)
(* ReadFrame's checks of the sync byte and of the declared length          *)
(***************************************************************************)
\* the device has called ReadFrame on the bytes of wire and what follows
WireWasRead == pc \in {"received", "misread"}

\* C34: a header whose little-endian length field is greater than 4096 is
\* rejected with ErrInvalidFrame once its 4 bytes are read: exactly 4 bytes
\* are consumed and every byte after the header is still in the reader; a
\* length of exactly 4096 is not rejected for its length, and the intact
\* frame with a 4096-byte payload is read.
C34_OversizeLengthRejectedAtHeader ==
    /\ (WireWasRead /\ Len(wire) >= 4 /\ wire[1] = SyncByte
            /\ Uint16(wire, 2) > MaxPayloadLen)
          => /\ rx.err = ErrInvalidFrame
             /\ rx.n = 4
             /\ Len(rx.rest) >= Len(wire) - 4
             /\ SubSeq(rx.rest, 1, Len(wire) - 4) = SubSeq(wire, 5, Len(wire))
    /\ (WireWasRead /\ Len(wire) >= 4 /\ wire[1] = SyncByte
            /\ Uint16(wire, 2) = MaxPayloadLen)
          => rx.err # ErrInvalidFrame
    /\ (pc = "received" /\ Len(req.Payload) = MaxPayloadLen)
          => (rx.err = ErrNil /\ rx.frame = req /\ rx.n = 6 + MaxPayloadLen)

\* a frame that declares 4097 payload bytes and carries them was rejected
\* at its header
C34_Declared4097Rejected ==
    /\ pc = "received"
    /\ Len(req.Payload) = MaxPayloadLen + 1
    /\ Uint16(wire, 2) = MaxPayloadLen + 1
    /\ rx.err = ErrInvalidFrame
    /\ rx.n = 4
    /\ Len(rx.rest) >= MaxPayloadLen + 3

\* the number of bytes at the head of the stream that are not the sync byte
RECURSIVE LeadingGarbage(_)
LeadingGarbage(bytes) ==
    IF bytes = <<>> \/ Head(bytes) = SyncByte THEN 0
    ELSE 1 + LeadingGarbage(Tail(bytes))

\* C35: a ReadFrame call whose first byte is not 0xAA returns
\* ErrInvalidFrame and has consumed that one byte and no other, so the
\* loop's calls go through the bytes that precede the first 0xAA one byte
\* per call, and the call after them starts at that 0xAA.
C35_WrongSyncConsumesOneByte ==
    /\ \A i \in 1..Len(log) :
          (log[i].op = "read" /\ log[i].bytes # <<>>
               /\ log[i].bytes[1] # SyncByte)
              => /\ log[i].err = ErrInvalidFrame
                 /\ Len(log[i].bytes) = 1
    /\ \A i \in 1..Len(log) :
          i <= LeadingGarbage(SentStream)
              => /\ log[i].op = "read"
                 /\ log[i].bytes = <<SentStream[i]>>
                 /\ log[i].err = ErrInvalidFrame
    /\ (Len(log) > LeadingGarbage(SentStream))
          => /\ log[LeadingGarbage(SentStream) + 1].op = "read"
             /\ log[LeadingGarbage(SentStream) + 1].bytes[1] = SyncByte
    /\ (pc = "read" /\ wire # <<>> /\ wire[1] # SyncByte)
          => /\ ReadFrame(wire).err = ErrInvalidFrame
             /\ ReadFrame(wire).n = 1
             /\ ReadFrame(wire).rest = Tail(wire)

\* two bytes that are not 0xAA were read one per call, and the frame that
\* followed them was read whole by the third call
C35_SkippedToFrame ==
    /\ LeadingGarbage(SentStream) = 2
    /\ Len(log) >= 3
    /\ \A i \in 1..2 : Len(log[i].bytes) = 1 /\ log[i].err = ErrInvalidFrame
    /\ log[3].op = "read"
    /\ log[3].err = ErrNil
    /\ log[3].frame \in StreamFrames

(***************************************************************************)
(* storage.New call by call.  req holds the call's argument, injected says *)
(* which of lfs.Format and the mount after it fails, before is the image   *)
(* at the call, log lists the calls New has made; pc is "unmounted" (New   *)
(* not yet called), "mounting", "formatting", "formatted", "mounted",      *)
(* "cleaned", "wiping", "returned" (a manager) or "failed" (nil, err).     *)
(***************************************************************************)
\* a New that formats whenever its caller permits it
afterFirstMountFormats(mountErr, format) ==
    IF format THEN "formatting"
    ELSE IF mountErr # ErrNil THEN "failed"
    ELSE "mounted"

\* New after lfs.Mount() has returned mountErr: where it goes next
afterFirstMount(mountErr, format) ==
    IF mountErr = ErrNil THEN "mounted"
    ELSE IF ~format THEN "failed"
    ELSE "formatting"

\* lfs.Mount()
MountErr(f) == IF f.formatted THEN ErrNil ELSE LfsErrCorrupt

\* stores of the current format version, with and without temporary files
CurrentImages == {ImageOfVersion(CurrentVersion, t) : t \in BOOLEAN}

FormatFaults ==
    {NoFault, [at |-> "format", err |-> LfsErrIO],
     [at |-> "remount", err |-> LfsErrCorrupt]}

InitNew ==
    /\ flash \in InitImages \cup LegacyImages \cup CurrentImages
    /\ pc = "unmounted"
    /\ mgr = FALSE
    /\ req \in [format : BOOLEAN]
    /\ resp = NoResponse
    /\ injected \in FormatFaults
    /\ before = flash
    /\ intr = NoIntr
    /\ wire = <<>>
    /\ rx = NoRx
    /\ log = <<>>

\* main calls storage.New(blockDev, format): littlefs.New and Configure
NewCalled ==
    /\ pc = "unmounted"
    /\ pc' = "mounting"
    /\ UNCHANGED <<flash, mgr, req, resp, injected, before, intr, wire, rx,
                   log>>

\* err := lfs.Mount()
NewMounts ==
    /\ pc = "mounting"
    /\ pc' = afterFirstMount(MountErr(flash), req.format)
    /\ log' = Append(log, "Mount")
    /\ UNCHANGED <<flash, mgr, req, resp, injected, before, intr, wire, rx>>

\* lfs.Format()
NewFormats ==
    /\ pc = "formatting"
    /\ log' = Append(log, "Format")
    /\ IF injected.at = "format"
       THEN pc' = "failed" /\ flash' = flash
       ELSE pc' = "formatted" /\ flash' = FormattedFlash
    /\ UNCHANGED <<mgr, req, resp, injected, before, intr, wire, rx>>

\* the lfs.Mount() after the format
NewMountsAgain ==
    /\ pc = "formatted"
    /\ log' = Append(log, "Mount")
    /\ pc' = IF injected.at = "remount" THEN "failed" ELSE "mounted"
    /\ UNCHANGED <<flash, mgr, req, resp, injected, before, intr, wire, rx>>

\* m := &Manager{...}; m.bootCleanup(), its error ignored
NewCleansUp ==
    /\ pc = "mounted"
    /\ pc' = "cleaned"
    /\ flash' = Final(flash, bootCleanup(flash).trace)
    /\ log' = Append(log, "bootCleanup")
    /\ UNCHANGED <<mgr, req, resp, injected, before, intr, wire, rx>>

\* needsWipe, err := m.checkVersion(); without a wipe New returns m
NewChecksVersion ==
    /\ pc = "cleaned"
    /\ log' = Append(log, "checkVersion")
    /\ \E v \in {checkVersion(flash)} :
          IF v.err = ErrNil /\ v.needsWipe
          THEN pc' = "wiping" /\ mgr' = mgr
          ELSE pc' = "returned" /\ mgr' = TRUE
    /\ UNCHANGED <<flash, req, resp, injected, before, intr, wire, rx>>

\* m.wipeAll(), then return m
NewWipes ==
    /\ pc = "wiping"
    /\ log' = Append(log, "wipeAll")
    /\ \E w \in {wipeAll(flash)} :
          /\ flash' = Final(flash, w.trace)
          /\ pc' = IF w.err # ErrNil THEN "failed" ELSE "returned"
          /\ mgr' = (w.err = ErrNil)
    /\ UNCHANGED <<req, resp, injected, before, intr, wire, rx>>

NextNew ==
    \/ NewCalled
    \/ NewMounts
    \/ NewFormats
    \/ NewMountsAgain
    \/ NewCleansUp
    \/ NewChecksVersion
    \/ NewWipes

SpecNew == InitNew /\ [][NextNew]_vars

\* the position of the first entry of l that is x, or 0
FirstIndex(l, x) ==
    IF \E i \in 1..Len(l) : l[i] = x
    THEN CHOOSE i \in 1..Len(l) : l[i] = x /\ \A j \in 1..(i - 1) : l[j] # x
    ELSE 0

C36_StepsAgreeWithNew ==
    (pc \in {"returned", "failed"})
        => \E n \in {New(before, req.format, injected = NoFault)} :
              /\ mgr = (n.err = ErrNil)
              /\ mgr => flash = Final(before, n.trace)

C36_MountableStoreKept ==
    /\ pc = "returned"
    /\ req.format
    /\ before \in CurrentImages
    /\ log = <<"Mount", "bootCleanup", "checkVersion">>
    /\ FsExists(flash, deviceFile)
    /\ FileOrNone(flash, profilePath(SlotOf(1)))
           = FileOrNone(before, profilePath(SlotOf(1)))

(***************************************************************************)
(* SetName called more than once on one Profile.  The profile starts as    *)
(* Go's zero value (var p config.Profile); log lists the names set.        *)
(***************************************************************************)
InitNames ==
    /\ flash = BlankFlash
    /\ pc = "struct"
    /\ mgr = FALSE
    /\ req = ZeroProfile
    /\ resp = NoResponse
    /\ injected = NoFault
    /\ before = flash
    /\ intr = NoIntr
    /\ wire = <<>>
    /\ rx = NoRx
    /\ log = <<>>

\* p.SetName(name) on a profile that has a name already
CallSetNameAgain ==
    /\ pc = "named"
    /\ pc' = "renamed"
    /\ \E name \in Names :
          /\ req' = SetName(req, name)
          /\ log' = Append(log, name)
    /\ UNCHANGED <<flash, mgr, resp, injected, before, intr, wire, rx>>

\* p.MarshalBinary() of the named profile
MarshalNamed ==
    /\ pc \in {"named", "renamed"}
    /\ pc' = "serialized"
    /\ wire' = ProfileMarshalBinary(req)
    /\ UNCHANGED <<flash, mgr, req, resp, injected, before, intr, rx, log>>

NextNames ==
    \/ CallSetName
    \/ CallSetNameAgain
    \/ MarshalNamed

SpecNames == InitNames /\ [][NextNames]_vars

\* every byte of the 16-byte field from its first zero byte on is zero
NullPadded(name) ==
    \A i \in 1..Len(name) :
        name[i] = 0 => \A j \in i..Len(name) : name[j] = 0

\* C37: after any sequence of SetName calls the Name field is null-padded,
\* in the Profile and in its serialized form (bytes 14..29 of the record):
\* no byte of an earlier, longer name follows the terminator.
C37_NameIsNullPadded ==
    /\ (pc \in {"named", "renamed"}) => NullPadded(req.Name)
    /\ (pc = "serialized") => NullPadded(Slice(wire, 14, 14 + NameLen))

\* C37, as the code behaves: SetName writes the name and one zero byte
\* after it and leaves the bytes behind that as they were; the field is
\* null-padded after the first call on a zero profile, and after a second
\* call it keeps the first name's bytes behind the terminator
C37_TerminatedNotPadded ==
    /\ (pc = "named") => NullPadded(req.Name)
    /\ (pc = "renamed")
          => /\ req.Name[Len(GetName(req)) + 1] = 0
             /\ \A j \in (Len(GetName(req)) + 2)..NameLen :
                   req.Name[j] = SetName(ZeroProfile, log[1]).Name[j]

\* a two-byte name set over an eight-byte one: the record carries the
\* earlier name's bytes 4..8 after the terminator
C37_ResidueOfLongerName ==
    /\ pc = "serialized"
    /\ Len(log) = 2
    /\ Len(log[1]) = 8
    /\ Len(log[2]) = 2
    /\ wire[15 + 2] = 0
    /\ \A j \in 4..8 : wire[14 + j] = log[1][j]

(***************************************************************************)
(* The version wipe at boot, on stores an earlier firmware filled: a       *)
(* device config and any number of profiles, all of that firmware's        *)
(* format version.  The power can be lost after each filesystem call of    *)
(* storage.New.                                                            *)
(***************************************************************************)
\* the slots the earlier firmware may have filled
WipeSlots == {0, 9, 127, 255}

\* image f with a profile of version v in every slot of the set
RECURSIVE WithProfiles(_, _, _)
WithProfiles(f, v, slots) ==
    IF slots = {} THEN f
    ELSE LET slot == CHOOSE x \in slots : TRUE
         IN WithProfiles(FsPut(f, profilePath(slot), ProfilePayload(v, 1)),
                         v, slots \ {slot})

WipeImages ==
    {WithProfiles(ImageOfVersion(v, t), v, slots) :
        v \in WrongVersions, t \in BOOLEAN, slots \in SUBSET WipeSlots}

InitWipe ==
    /\ flash \in WipeImages
    /\ pc = "off"
    /\ mgr = FALSE
    /\ req = NoRequest
    /\ resp = NoResponse
    /\ injected = NoFault
    /\ before = flash
    /\ intr = NoIntr
    /\ wire = <<>>
    /\ rx = NoRx
    /\ log = <<>>

NextWipe ==
    \/ PowerOn
    \/ PowerLossInNew
    \/ StartSerial
    \/ OnListProfiles
    \/ OnGetDeviceConfig
    \/ WriteResponse
    \/ PowerOff

SpecWipe == InitWipe /\ [][NextWipe]_vars

\* the slots that hold a profile whose version is not CurrentVersion
OldProfileSlots(f) ==
    {slot \in OccupiedSlots(f) :
        LoadProfile(f, slot).err = ErrNil
            /\ LoadProfile(f, slot).val.Version # CurrentVersion}

\* C38: the version wipe at boot can be restarted.  Wherever the power is
\* lost during the wipe, a profile of the old version is never on the flash
\* without the device config of the old version beside it, so the next
\* checkVersion asks for the wipe again; and whenever storage.New has
\* returned, no record of the old version is left.
C38_WipeIsRestartable ==
    /\ (OldProfileSlots(flash) # {})
          => /\ FsExists(flash, deviceFile)
             /\ checkVersion(flash) = [needsWipe |-> TRUE, err |-> ErrNil]
    /\ (pc \in {"boot", "read", "write"} /\ mgr)
          => /\ OldProfileSlots(flash) = {}
             /\ ~FsExists(flash, deviceFile)
             /\ OccupiedSlots(flash) = {}

\* the power was lost in the middle of the wipe: some of the old profiles
\* are deleted, others and the device config are still there
C38_PowerLostInsideWipe ==
    /\ pc = "off"
    /\ Cardinality(OccupiedSlots(before)) = 4
    /\ Cardinality(OldProfileSlots(flash)) = 2
    /\ FsExists(flash, deviceFile)

\* the boot after a power loss inside the wipe finished it
C38_WipeCompletedAfterRestart ==
    /\ pc = "boot"
    /\ mgr
    /\ OccupiedSlots(before) # {}
    /\ OccupiedSlots(before) \notin {OccupiedSlots(x) : x \in WipeImages}
    /\ OccupiedSlots(flash) = {}
    /\ ~FsExists(flash, deviceFile)

(***************************************************************************)
(* What a command changes on the flash                                     *)
(***************************************************************************)
\* the files whose content, or whose presence, differs between f and g
ChangedFiles(f, g) ==
    {path \in (DOMAIN f.files) \cup (DOMAIN g.files) :
        FileOrNone(f, path) # FileOrNone(g, path)}

\* the response statuses of a command that was refused
RefusedStatuses == {StatusInvalidCmd, StatusInvalidData, StatusVersionMismatch}

\* C39: a command changes at most the record it addresses.  SetProfile and
\* DeleteProfile on slot s leave every other slot's profile and the device
\* config as they were; SetDeviceConfig leaves every profile as it was;
\* Ping, GetDeviceConfig, GetProfile, ListProfiles, GetStorageStats,
\* GetVersion and every command answered InvalidCmd, InvalidData or
\* VersionMismatch leave every stored record as it was.
C39_OnlyAddressedRecordChanges ==
    (pc = "write" /\ req.Cmd # CmdFactoryReset)
        => IF resp.Status \in RefusedStatuses
           THEN ChangedFiles(before, flash) = {}
           ELSE IF req.Cmd \in {CmdSetProfile, CmdDeleteProfile}
           THEN /\ ChangedFiles(before, flash)
                       \subseteq {<<profilesDir,
                                    Itoa(req.Payload[1]) \o profileSuffix>>}
                /\ LoadDevice(flash) = LoadDevice(before)
                /\ \A slot \in Slots \ {req.Payload[1]} :
                      LoadProfile(flash, slot) = LoadProfile(before, slot)
           ELSE IF req.Cmd = CmdSetDeviceConfig
           THEN /\ ChangedFiles(before, flash) \subseteq {deviceFile}
                /\ \A slot \in Slots :
                      LoadProfile(flash, slot) = LoadProfile(before, slot)
           ELSE /\ ChangedFiles(before, flash) = {}
                /\ flash = before

\* SetProfile replaced the profile of one slot while another slot and the
\* device config held records
C39_OverwroteBesideOtherRecords ==
    /\ pc = "write"
    /\ req.Cmd = CmdSetProfile
    /\ resp.Status = StatusOK
    /\ ChangedFiles(before, flash) = {profilePath(req.Payload[1])}
    /\ FsExists(before, profilePath(req.Payload[1]))
    /\ FsExists(before, deviceFile)
    /\ \E slot \in Slots \ {req.Payload[1]} :
          LoadProfile(flash, slot).err = ErrNil

\* DeleteProfile removed one profile and left another
C39_DeletedBesideOtherRecords ==
    /\ pc = "write"
    /\ req.Cmd = CmdDeleteProfile
    /\ resp.Status = StatusOK
    /\ ChangedFiles(before, flash) = {profilePath(req.Payload[1])}
    /\ \E slot \in Slots \ {req.Payload[1]} :
          LoadProfile(flash, slot).err = ErrNil

(***************************************************************************)
(* gamepad: Gamepad.tx, called by the application, and Gamepad.TxHandler,  *)
(* called by the USB interrupt when a packet has been transmitted.  The    *)
(* interrupt can come between any two statements of tx; TxHandler itself   *)
(* runs to its end.  req is the Gamepad (waitTxc and the ring buffer), rx  *)
(* is the USB device (InitEndpointComplete and the packets whose           *)
(* transmit-complete interrupt is still to come), wire lists the reports   *)
(* passed to tx once the endpoints were initialised, log lists the         *)
(* packets handed to SendUSBPacket, and pc is [at, b]: where tx is and the *)
(* report it was given.  Reports are numbered in the order of the calls.   *)
(***************************************************************************)
waitTxc == req.waitTxc
ringBuffer == req.buf

InitGamepad ==
    /\ flash = BlankFlash
    /\ pc = [at |-> "idle", b |-> 0]
    /\ mgr = FALSE
    /\ req = [waitTxc |-> FALSE, buf |-> <<>>]
    /\ resp = NoResponse
    /\ injected = NoFault
    /\ before = flash
    /\ intr = NoIntr
    /\ wire = <<>>
    /\ rx = [InitEndpointComplete |-> FALSE, pending |-> 0, calls |-> 0]
    /\ log = <<>>

\* the USB stack finishes the endpoint initialisation
EndpointInit ==
    /\ ~rx.InitEndpointComplete
    /\ pc.at = "idle"
    /\ rx' = [rx EXCEPT !.InitEndpointComplete = TRUE]
    /\ UNCHANGED <<flash, pc, mgr, req, resp, injected, before, intr, wire,
                   log>>

\* tx(b): if machine.USBDev.InitEndpointComplete
TxCalled ==
    /\ pc.at = "idle"
    /\ rx.calls < MaxReports
    /\ rx' = [rx EXCEPT !.calls = @ + 1]
    /\ IF rx.InitEndpointComplete
       THEN /\ pc' = [at |-> "test", b |-> rx.calls + 1]
            /\ wire' = Append(wire, rx.calls + 1)
       ELSE UNCHANGED <<pc, wire>>
    /\ UNCHANGED <<flash, mgr, req, resp, injected, before, intr, log>>

\* tx: if g.waitTxc
TxTestsWait ==
    /\ pc.at = "test"
    /\ pc' = [pc EXCEPT !.at = IF waitTxc THEN "put" ELSE "mark"]
    /\ UNCHANGED <<flash, mgr, req, resp, injected, before, intr, wire, rx,
                   log>>

\* tx: g.buf.Put(b)
TxPuts ==
    /\ pc.at = "put"
    /\ req' = [req EXCEPT !.buf = Append(@, pc.b)]
    /\ pc' = [at |-> "idle", b |-> 0]
    /\ UNCHANGED <<flash, mgr, resp, injected, before, intr, wire, rx, log>>

\* tx: g.waitTxc = true
TxMarks ==
    /\ pc.at = "mark"
    /\ req' = [req EXCEPT !.waitTxc = TRUE]
    /\ pc' = [pc EXCEPT !.at = "send"]
    /\ UNCHANGED <<flash, mgr, resp, injected, before, intr, wire, rx, log>>

\* tx: hid.SendUSBPacket(b)
TxSends ==
    /\ pc.at = "send"
    /\ log' = Append(log, pc.b)
    /\ rx' = [rx EXCEPT !.pending = @ + 1]
    /\ pc' = [at |-> "idle", b |-> 0]
    /\ UNCHANGED <<flash, mgr, req, resp, injected, before, intr, wire>>

\* TxHandler, whole: g.waitTxc = false; if b, ok := g.buf.Get(); ok then
\* g.waitTxc = true and hid.SendUSBPacket(b)
TxHandlerRuns ==
    /\ IF ringBuffer # <<>>
       THEN /\ req' = [waitTxc |-> TRUE, buf |-> Tail(ringBuffer)]
            /\ log' = Append(log, Head(ringBuffer))
            /\ rx' = rx
       ELSE /\ req' = [req EXCEPT !.waitTxc = FALSE]
            /\ log' = log
            /\ rx' = [rx EXCEPT !.pending = @ - 1]
    /\ UNCHANGED <<flash, pc, mgr, resp, injected, before, intr, wire>>

\* the USB interrupt: a packet has been transmitted, wherever tx is
TxHandler ==
    /\ rx.pending > 0
    /\ TxHandlerRuns

\* the USB interrupt held off while tx runs
TxHandlerBetweenCalls ==
    /\ rx.pending > 0
    /\ pc.at = "idle"
    /\ TxHandlerRuns

NextGamepad ==
    \/ EndpointInit
    \/ TxCalled
    \/ TxTestsWait
    \/ TxPuts
    \/ TxMarks
    \/ TxSends
    \/ TxHandler

SpecGamepad == InitGamepad /\ [][NextGamepad]_vars

\* the same with the interrupt masked during tx
NextGamepadMasked ==
    \/ EndpointInit
    \/ TxCalled
    \/ TxTestsWait
    \/ TxPuts
    \/ TxMarks
    \/ TxSends
    \/ TxHandlerBetweenCalls

SpecGamepadMasked == InitGamepad /\ [][NextGamepadMasked]_vars

\* l holds no element twice and its elements ascend
Ascending(l) == \A i, j \in 1..Len(l) : i < j => l[i] < l[j]

\* C40: with the interrupt's TxHandler coming at any point of tx, and the
\* ring buffer never full, the reports passed to tx after the endpoint
\* initialisation are handed to SendUSBPacket once each and in the order
\* of the calls; no report sits in the ring buffer while waitTxc is false;
\* and when tx has returned and no transmission is outstanding, every
\* report passed to tx has been handed to SendUSBPacket.
C40_ReportsSentOnceInOrder ==
    /\ Ascending(log)
    /\ \A i \in 1..Len(log) : \E j \in 1..Len(wire) : wire[j] = log[i]
    /\ (pc.at = "idle" /\ ringBuffer # <<>>) => waitTxc
    /\ (pc.at = "idle" /\ rx.pending = 0) => log = wire

\* C40, as the code behaves when TxHandler comes between tx's test of
\* waitTxc and its Put: each report is still handed over at most once, and
\* a report that has not been handed over is in the ring buffer or in tx's
\* hands
C40_NoReportSentTwice ==
    /\ \A i, j \in 1..Len(log) : i # j => log[i] # log[j]
    /\ \A i \in 1..Len(wire) :
          \/ \E j \in 1..Len(log) : log[j] = wire[i]
          \/ \E j \in 1..Len(ringBuffer) : ringBuffer[j] = wire[i]
          \/ pc.b = wire[i]

\* a report sits in the ring buffer with waitTxc false, no transmission
\* outstanding and tx returned: no interrupt will come to send it
C40_ReportStranded ==
    /\ pc.at = "idle"
    /\ ringBuffer # <<>>
    /\ ~waitTxc
    /\ rx.pending = 0

\* a later report was handed to SendUSBPacket before an earlier one
C40_ReportsOutOfOrder ==
    \E i, j \in 1..Len(log) : i < j /\ log[i] > log[j]

=============================================================================
